---- MODULE Spec2Model ----
(***************************************************************************)
(* Model of image_mix: SpreadSheetLoader.get_layouts and the parsers and   *)
(* entity constructors it calls.                                           *)
(*                                                                         *)
(* A Python str is a sequence of one-character strings, so that            *)
(* emptiness, int() and os.path.join are computed as Python computes them. *)
(* A raised exception is a record [type, msg, args, cause]; cause is a     *)
(* sequence holding the `raise ... from error` origin, or <<>>.            *)
(***************************************************************************)
EXTENDS Integers, Sequences, FiniteSets, TLC

\* ------------------------------------------------------------------------
\* Bounds of the model
\* ------------------------------------------------------------------------
MaxLayoutRows == 2
MaxTabRows == 2

\* ------------------------------------------------------------------------
\* Module constants of spreadsheet_loader.py
\* ------------------------------------------------------------------------
_TEXT_LAYER_ID_COLUMN == 0
_TEXT_LAYER_FONT_SIZE_COLUMN == 1
_TEXT_LAYER_COLOR_R_COLUMN == 2
_TEXT_LAYER_COLOR_G_COLUMN == 3
_TEXT_LAYER_COLOR_B_COLUMN == 4
_TEXT_LAYER_POSITION_X_COLUMN == 5
_TEXT_LAYER_POSITION_Y_COLUMN == 6
_TEXT_LAYER_TEXT_CONTENT_COLUMN == 7

_IMAGE_LAYER_ID_COLUMN == 0
_IMAGE_LAYER_WIDTH_COLUMN == 1
_IMAGE_LAYER_HEIGHT_COLUMN == 2
_IMAGE_LAYER_POSITION_X_COLUMN == 3
_IMAGE_LAYER_POSITION_Y_COLUMN == 4
_IMAGE_LAYER_FILE_NAME_COLUMN == 5

_LAYER_ID_COLUMN_HEADER == <<"l", "a", "y", "e", "r", "_", "i", "d">>

_CANVAS_ID_COLUMN_HEADER == <<"c", "a", "n", "v", "a", "s", "_", "i", "d">>
_CANVAS_ID_COLUMN == 0
_CANVAS_WIDTH_COLUMN == 1
_CANVAS_HEIGHT_COLUMN == 2

_LAYOUT_OUTPUT_FILENAME_COLUMN == 0
_LAYOUT_CANVAS_ID_COLUMN == 1
_LAYOUT_HEADER_FIRST_COLUMN_ ==
  <<"o", "u", "t", "p", "u", "t", "_", "f", "i", "l", "e", "n", "a", "m", "e">>

_NUMBER_OF_COLUMNS_IN_LAYOUT_TAB == 32
_LAYER_COLUMN_START_INDEX_LAYOUT_TAB == 2
_LAYER_COLUMN_END_INDEX_LAYOUT_TAB == 31

\* ------------------------------------------------------------------------
\* Python values
\* ------------------------------------------------------------------------
\* row[i] for a 0-based index i that is in range.
Cell(row, i) == row[i + 1]

\* `not s` for a str or a list.
IsEmpty(s) == Len(s) = 0

Ok(v) == [ok |-> TRUE, value |-> v]
Raise(e) == [ok |-> FALSE, error |-> e]

Error(type, msg, args) ==
  [type |-> type, msg |-> msg, args |-> args, cause |-> <<>>]
ErrorFrom(type, msg, args, origin) ==
  [type |-> type, msg |-> msg, args |-> args, cause |-> <<origin>>]

ValueError(msg, args) == Error("ValueError", msg, args)
IndexError == Error("IndexError", "list index out of range", <<>>)

\* row[i] as Python evaluates it: IndexError when i is past the end.
GetItem(row, i) == IF i < Len(row) THEN Ok(row[i + 1]) ELSE Raise(IndexError)

\* ---- int(str) ----------------------------------------------------------
Digits == <<"0", "1", "2", "3", "4", "5", "6", "7", "8", "9">>
IsDigit(c) == \E i \in 1..Len(Digits) : Digits[i] = c
DigitValue(c) == (CHOOSE i \in 1..Len(Digits) : Digits[i] = c) - 1
IsSpace(c) == c = " "

RECURSIVE LStrip(_)
LStrip(s) == IF Len(s) > 0 /\ IsSpace(Head(s)) THEN LStrip(Tail(s)) ELSE s

RECURSIVE RStrip(_)
RStrip(s) ==
  IF Len(s) > 0 /\ IsSpace(s[Len(s)])
  THEN RStrip(SubSeq(s, 1, Len(s) - 1))
  ELSE s

Strip(s) == RStrip(LStrip(s))

\* The digit part of an integer literal: digits, with single underscores
\* allowed between digits only.
IsDigitPart(s) ==
  /\ Len(s) > 0
  /\ \A i \in 1..Len(s) : IsDigit(s[i]) \/ s[i] = "_"
  /\ IsDigit(s[1])
  /\ IsDigit(s[Len(s)])
  /\ \A i \in 1..(Len(s) - 1) : ~(s[i] = "_" /\ s[i + 1] = "_")

RECURSIVE DigitPartValue(_, _)
DigitPartValue(s, acc) ==
  IF Len(s) = 0 THEN acc
  ELSE IF Head(s) = "_" THEN DigitPartValue(Tail(s), acc)
  ELSE DigitPartValue(Tail(s), 10 * acc + DigitValue(Head(s)))

\* int(s): surrounding whitespace is dropped, one optional sign, then the
\* digit part; anything else is ValueError.
PyInt(s) ==
  LET t == Strip(s)
      signed == Len(t) > 0 /\ t[1] \in {"+", "-"}
      body == IF signed THEN Tail(t) ELSE t
  IN  IF IsDigitPart(body)
      THEN Ok(IF signed /\ t[1] = "-"
              THEN 0 - DigitPartValue(body, 0)
              ELSE DigitPartValue(body, 0))
      ELSE Raise(ValueError("invalid literal for int() with base 10", <<s>>))

\* int(row[i]): the subscript is evaluated first.
IntCell(row, i) ==
  LET c == GetItem(row, i) IN IF c.ok THEN PyInt(c.value) ELSE c

\* ---- os.path.join(a, b) on a POSIX system --------------------------------
PathJoin(a, b) ==
  IF Len(b) > 0 /\ b[1] = "/" THEN b
  ELSE IF IsEmpty(a) \/ a[Len(a)] = "/" THEN a \o b
  ELSE a \o <<"/">> \o b

\* ------------------------------------------------------------------------
\* Entities
\* ------------------------------------------------------------------------
\* Variant of BaseLayer.__post_init__: position_y is not checked.
BaseLayer__post_init__NoPositionY(self) ==
  IF IsEmpty(self.layer_id)
  THEN Raise(ValueError("layer_id cannot be empty", <<>>))
  ELSE IF self.position_x < 0
  THEN Raise(ValueError("%s must be a positive number", <<self.position_x>>))
  ELSE Ok(self)

\* BaseLayer.__post_init__: the checks shared by both layer kinds.
BaseLayer__post_init__(self) ==
  IF IsEmpty(self.layer_id)
  THEN Raise(ValueError("layer_id cannot be empty", <<>>))
  ELSE IF self.position_x < 0
  THEN Raise(ValueError("%s must be a positive number", <<self.position_x>>))
  ELSE IF self.position_y < 0
  THEN Raise(ValueError("%s must be a positive number", <<self.position_y>>))
  ELSE Ok(self)

\* BaseLayer(...): the dataclass sets the fields, then __post_init__ runs.
BaseLayer(layer_id, position_x, position_y) ==
  BaseLayer__post_init__([class |-> "BaseLayer", layer_id |-> layer_id,
                          position_x |-> position_x,
                          position_y |-> position_y])

ImageLayer(layer_id, position_x, position_y, width, height, file_path) ==
  LET self == [class |-> "ImageLayer", layer_id |-> layer_id,
               position_x |-> position_x, position_y |-> position_y,
               width |-> width, height |-> height, file_path |-> file_path]
      base == BaseLayer__post_init__(self)
  IN  IF ~base.ok THEN base
      ELSE IF IsEmpty(file_path)
      THEN Raise(ValueError("file_path cannot be empty", <<>>))
      ELSE IF width < 0
      THEN Raise(ValueError("%s must be a positive number", <<width>>))
      ELSE IF height < 0
      THEN Raise(ValueError("%s must be a positive number", <<height>>))
      ELSE Ok(self)

\* Variant of TextLayer: a colour value of 255 is rejected.
TextLayer_Below255(layer_id, position_x, position_y, font_size, font_file_path, color_r, color_g, color_b, text_content) ==
  LET self == [class |-> "TextLayer", layer_id |-> layer_id,
               position_x |-> position_x, position_y |-> position_y,
               font_size |-> font_size, font_file_path |-> font_file_path,
               color_r |-> color_r, color_g |-> color_g, color_b |-> color_b,
               text_content |-> text_content]
      base == BaseLayer__post_init__(self)
  IN  IF ~base.ok THEN base
      ELSE IF IsEmpty(font_file_path)
      THEN Raise(ValueError("font_file_path should not be empty.", <<>>))
      ELSE IF color_r >= 255 \/ color_r < 0
      THEN Raise(ValueError("color_r must be between 0 and 255 included.", <<>>))
      ELSE IF color_g >= 255 \/ color_g < 0
      THEN Raise(ValueError("color_g must be between 0 and 255 included.", <<>>))
      ELSE IF color_b >= 255 \/ color_b < 0
      THEN Raise(ValueError("color_b must be between 0 and 255 included.", <<>>))
      ELSE IF IsEmpty(text_content)
      THEN Raise(ValueError("text_content should not be empty.", <<>>))
      ELSE Ok(self)

TextLayer(layer_id, position_x, position_y, font_size, font_file_path, color_r, color_g, color_b, text_content) ==
  LET self == [class |-> "TextLayer", layer_id |-> layer_id,
               position_x |-> position_x, position_y |-> position_y,
               font_size |-> font_size, font_file_path |-> font_file_path,
               color_r |-> color_r, color_g |-> color_g, color_b |-> color_b,
               text_content |-> text_content]
      base == BaseLayer__post_init__(self)
  IN  IF ~base.ok THEN base
      ELSE IF IsEmpty(font_file_path)
      THEN Raise(ValueError("font_file_path should not be empty.", <<>>))
      ELSE IF color_r > 255 \/ color_r < 0
      THEN Raise(ValueError("color_r must be between 0 and 255 included.", <<>>))
      ELSE IF color_g > 255 \/ color_g < 0
      THEN Raise(ValueError("color_g must be between 0 and 255 included.", <<>>))
      ELSE IF color_b > 255 \/ color_b < 0
      THEN Raise(ValueError("color_b must be between 0 and 255 included.", <<>>))
      ELSE IF IsEmpty(text_content)
      THEN Raise(ValueError("text_content should not be empty.", <<>>))
      ELSE Ok(self)

\* Canvas, as the data model documents it: canvas_id non-empty, width and
\* height integers >= 0.
Canvas(canvas_id, width, height) ==
  LET self == [class |-> "Canvas", canvas_id |-> canvas_id,
               width |-> width, height |-> height]
  IN  IF IsEmpty(canvas_id)
      THEN Raise(ValueError("canvas_id cannot be empty", <<>>))
      ELSE IF width < 0
      THEN Raise(ValueError("%s must be a positive number", <<width>>))
      ELSE IF height < 0
      THEN Raise(ValueError("%s must be a positive number", <<height>>))
      ELSE Ok(self)

\* None, where a Canvas is expected.
None == [class |-> "NoneType"]

\* Variant of Layout: an empty list of layers is accepted.
Layout_NoLayersCheck(canvas, output_filename, layers) ==
  LET self == [class |-> "Layout", canvas |-> canvas,
               output_filename |-> output_filename, layers |-> layers]
  IN  IF IsEmpty(output_filename)
      THEN Raise(ValueError("output_finemame cannot be empty.", <<>>))
      ELSE IF canvas = None
      THEN Raise(ValueError("canvas cannot be empty.", <<>>))
      ELSE Ok(self)

\* Layout.__post_init__. `not self.canvas` is true of None, never of a
\* Canvas object.
Layout(canvas, output_filename, layers) ==
  LET self == [class |-> "Layout", canvas |-> canvas,
               output_filename |-> output_filename, layers |-> layers]
  IN  IF IsEmpty(output_filename)
      THEN Raise(ValueError("output_finemame cannot be empty.", <<>>))
      ELSE IF canvas = None
      THEN Raise(ValueError("canvas cannot be empty.", <<>>))
      ELSE IF IsEmpty(layers)
      THEN Raise(ValueError("layers cannot be empty.", <<>>))
      ELSE Ok(self)

\* ------------------------------------------------------------------------
\* Table parsers
\* ------------------------------------------------------------------------
\* The first result that raised among the argument expressions of a call,
\* which Python evaluates left to right; <<>> when none raised.
FirstRaise(results) ==
  LET bad == {i \in 1..Len(results) : ~results[i].ok}
  IN  IF bad = {} THEN <<>>
      ELSE <<results[CHOOSE i \in bad : \A j \in bad : i <= j]>>

\* The body of the try block of get_text_layers for one row.
\* Variant of TextLayerFromRow: the two position cells are exchanged.
TextLayerFromRow_SwapsPosition(row, font_file_path) ==
  LET a == << GetItem(row, _TEXT_LAYER_ID_COLUMN),
              IntCell(row, _TEXT_LAYER_POSITION_Y_COLUMN),
              IntCell(row, _TEXT_LAYER_POSITION_X_COLUMN),
              IntCell(row, _TEXT_LAYER_FONT_SIZE_COLUMN),
              IntCell(row, _TEXT_LAYER_COLOR_R_COLUMN),
              IntCell(row, _TEXT_LAYER_COLOR_G_COLUMN),
              IntCell(row, _TEXT_LAYER_COLOR_B_COLUMN),
              GetItem(row, _TEXT_LAYER_TEXT_CONTENT_COLUMN) >>
      bad == FirstRaise(a)
  IN  IF bad # <<>> THEN bad[1]
      ELSE TextLayer(a[1].value, a[2].value, a[3].value, a[4].value,
                     font_file_path, a[5].value, a[6].value, a[7].value,
                     a[8].value)

\* Lines 155-167: the TextLayer made from a row of the TEXT_LAYER tab.
TextLayerFromRow(row, font_file_path) ==
  LET a == << GetItem(row, _TEXT_LAYER_ID_COLUMN),
              IntCell(row, _TEXT_LAYER_POSITION_X_COLUMN),
              IntCell(row, _TEXT_LAYER_POSITION_Y_COLUMN),
              IntCell(row, _TEXT_LAYER_FONT_SIZE_COLUMN),
              IntCell(row, _TEXT_LAYER_COLOR_R_COLUMN),
              IntCell(row, _TEXT_LAYER_COLOR_G_COLUMN),
              IntCell(row, _TEXT_LAYER_COLOR_B_COLUMN),
              GetItem(row, _TEXT_LAYER_TEXT_CONTENT_COLUMN) >>
      bad == FirstRaise(a)
  IN  IF bad # <<>> THEN bad[1]
      ELSE TextLayer(a[1].value, a[2].value, a[3].value, a[4].value,
                     font_file_path, a[5].value, a[6].value, a[7].value,
                     a[8].value)

RECURSIVE TextLayersLoop(_, _, _, _)
TextLayersLoop(rows, index, text_layers, font_file_path) ==
  IF index = Len(rows) THEN Ok(text_layers)
  ELSE LET row == rows[index + 1] IN
    IF IsEmpty(row) THEN Raise(IndexError)
    ELSE IF Cell(row, 0) = _LAYER_ID_COLUMN_HEADER
    THEN TextLayersLoop(rows, index + 1, text_layers, font_file_path)
    ELSE LET r == TextLayerFromRow(row, font_file_path) IN
      IF r.ok
      THEN TextLayersLoop(rows, index + 1, Append(text_layers, r.value),
                          font_file_path)
      ELSE Raise(ErrorFrom("ValueError",
             "Failed to create text layer object from row %d in the TEXT_LAYER tab",
             <<index + 1>>, r.error))

\* get_text_layers on the rows read from the TEXT_LAYER tab.
get_text_layers(all_rows, font_file_path) ==
  TextLayersLoop(all_rows, 0, <<>>, font_file_path)

\* Variant of ImageLayerFromRow: the file name cell alone is the file_path.
ImageLayerFromRow_NoJoin(row, directory) ==
  LET a == << GetItem(row, _IMAGE_LAYER_ID_COLUMN),
              IntCell(row, _IMAGE_LAYER_POSITION_X_COLUMN),
              IntCell(row, _IMAGE_LAYER_POSITION_Y_COLUMN),
              IntCell(row, _IMAGE_LAYER_WIDTH_COLUMN),
              IntCell(row, _IMAGE_LAYER_HEIGHT_COLUMN),
              GetItem(row, _IMAGE_LAYER_FILE_NAME_COLUMN) >>
      bad == FirstRaise(a)
  IN  IF bad # <<>> THEN bad[1]
      ELSE ImageLayer(a[1].value, a[2].value, a[3].value, a[4].value,
                      a[5].value, a[6].value)

\* Lines 197-204: the ImageLayer made from a row of the IMAGE_LAYER tab.
ImageLayerFromRow(row, directory) ==
  LET a == << GetItem(row, _IMAGE_LAYER_ID_COLUMN),
              IntCell(row, _IMAGE_LAYER_POSITION_X_COLUMN),
              IntCell(row, _IMAGE_LAYER_POSITION_Y_COLUMN),
              IntCell(row, _IMAGE_LAYER_WIDTH_COLUMN),
              IntCell(row, _IMAGE_LAYER_HEIGHT_COLUMN),
              GetItem(row, _IMAGE_LAYER_FILE_NAME_COLUMN) >>
      bad == FirstRaise(a)
  IN  IF bad # <<>> THEN bad[1]
      ELSE ImageLayer(a[1].value, a[2].value, a[3].value, a[4].value,
                      a[5].value, PathJoin(directory, a[6].value))

RECURSIVE ImageLayersLoop(_, _, _, _)
ImageLayersLoop(rows, index, image_layers, directory) ==
  IF index = Len(rows) THEN Ok(image_layers)
  ELSE LET row == rows[index + 1] IN
    IF IsEmpty(row) THEN Raise(IndexError)
    ELSE IF Cell(row, 0) = _LAYER_ID_COLUMN_HEADER
    THEN ImageLayersLoop(rows, index + 1, image_layers, directory)
    ELSE LET r == ImageLayerFromRow(row, directory) IN
      IF r.ok
      THEN ImageLayersLoop(rows, index + 1, Append(image_layers, r.value),
                           directory)
      ELSE Raise(ErrorFrom("ValueError",
             "Failed to create image layer object from row %d in the IMAGE_LAYER tab",
             <<index + 1>>, r.error))

\* Variant of ImageLayersLoop: only a header in the first row is skipped.
RECURSIVE ImageLayersLoop_HeaderFirstOnly(_, _, _, _)
ImageLayersLoop_HeaderFirstOnly(rows, index, image_layers, directory) ==
  IF index = Len(rows) THEN Ok(image_layers)
  ELSE LET row == rows[index + 1] IN
    IF IsEmpty(row) THEN Raise(IndexError)
    ELSE IF index = 0 /\ Cell(row, 0) = _LAYER_ID_COLUMN_HEADER
    THEN ImageLayersLoop_HeaderFirstOnly(rows, index + 1, image_layers,
                                         directory)
    ELSE LET r == ImageLayerFromRow(row, directory) IN
      IF r.ok
      THEN ImageLayersLoop_HeaderFirstOnly(rows, index + 1,
                                           Append(image_layers, r.value),
                                           directory)
      ELSE Raise(ErrorFrom("ValueError",
             "Failed to create image layer object from row %d in the IMAGE_LAYER tab",
             <<index + 1>>, r.error))

\* Variant of get_image_layers: only a header in the first row is skipped.
get_image_layers_HeaderFirstOnly(all_rows, directory) ==
  ImageLayersLoop_HeaderFirstOnly(all_rows, 0, <<>>, directory)

\* get_image_layers on the rows read from the IMAGE_LAYER tab.
get_image_layers(all_rows, directory) ==
  ImageLayersLoop(all_rows, 0, <<>>, directory)

CanvasFromRow(row) ==
  LET a == << GetItem(row, _CANVAS_ID_COLUMN),
              IntCell(row, _CANVAS_WIDTH_COLUMN),
              IntCell(row, _CANVAS_HEIGHT_COLUMN) >>
      bad == FirstRaise(a)
  IN  IF bad # <<>> THEN bad[1]
      ELSE Canvas(a[1].value, a[2].value, a[3].value)

RECURSIVE CanvasesLoop(_, _, _)
CanvasesLoop(rows, index, canvases) ==
  IF index = Len(rows) THEN Ok(canvases)
  ELSE LET row == rows[index + 1] IN
    IF IsEmpty(row) THEN Raise(IndexError)
    ELSE IF Cell(row, 0) = _CANVAS_ID_COLUMN_HEADER
    THEN CanvasesLoop(rows, index + 1, canvases)
    ELSE LET r == CanvasFromRow(row) IN
      IF r.ok
      THEN CanvasesLoop(rows, index + 1, Append(canvases, r.value))
      ELSE Raise(ErrorFrom("ValueError",
             "Failed to create canvas object from row %d in the CANVAS tab",
             <<index + 1>>, r.error))

\* get_canvases on the rows read from the CANVAS tab.
get_canvases(all_rows) == CanvasesLoop(all_rows, 0, <<>>)

\* ------------------------------------------------------------------------
\* Layout rows
\* ------------------------------------------------------------------------
\* Variant of _validate_layout_row: the number of cells is not checked.
_validate_layout_row_AnyLength(row) ==
  IF IsEmpty(row)
  THEN Raise(ValueError("A valid layout row cannot be empty.", <<>>))
  ELSE IF IsEmpty(Cell(row, 0)) \/ IsEmpty(Cell(row, 1)) \/ IsEmpty(Cell(row, 2))
  THEN Raise(ValueError(
         "A layout row should have at least the three first columns with values. We need to have at least one layer. Please check row ",
         <<row>>))
  ELSE Ok(row)

\* Variant of _validate_layout_row: the first layer cell is not checked.
_validate_layout_row_NoFirstLayer(row) ==
  IF IsEmpty(row)
  THEN Raise(ValueError("A valid layout row cannot be empty.", <<>>))
  ELSE IF Len(row) # _NUMBER_OF_COLUMNS_IN_LAYOUT_TAB
  THEN Raise(ValueError(
         "The row %s doesn't have the right number of column, it has %d instead of 32 columns",
         <<row, Len(row)>>))
  ELSE IF IsEmpty(Cell(row, 0)) \/ IsEmpty(Cell(row, 1))
  THEN Raise(ValueError(
         "A layout row should have at least the three first columns with values. We need to have at least one layer. Please check row ",
         <<row>>))
  ELSE Ok(row)

_validate_layout_row(row) ==
  IF IsEmpty(row)
  THEN Raise(ValueError("A valid layout row cannot be empty.", <<>>))
  ELSE IF Len(row) # _NUMBER_OF_COLUMNS_IN_LAYOUT_TAB
  THEN Raise(ValueError(
         "The row %s doesn't have the right number of column, it has %d instead of 32 columns",
         <<row, Len(row)>>))
  ELSE IF IsEmpty(Cell(row, 0)) \/ IsEmpty(Cell(row, 1)) \/ IsEmpty(Cell(row, 2))
  THEN Raise(ValueError(
         "A layout row should have at least the three first columns with values. We need to have at least one layer. Please check row ",
         <<row>>))
  ELSE Ok(row)

\* Variant of _get_canvas_with_id_from_canvases: the first match is taken,
\* several matches are not an error.
_get_canvas_with_id_from_canvases_FirstMatch(canvas_id, canvases) ==
  LET canvas == SelectSeq(canvases, LAMBDA c : c.canvas_id = canvas_id)
  IN  IF IsEmpty(canvas)
      THEN Raise(ValueError("Failed to find %s in the list of canvas.",
                            <<canvas_id>>))
      ELSE Ok(canvas[1])

_get_canvas_with_id_from_canvases(canvas_id, canvases) ==
  LET canvas == SelectSeq(canvases, LAMBDA c : c.canvas_id = canvas_id)
  IN  IF IsEmpty(canvas)
      THEN Raise(ValueError("Failed to find %s in the list of canvas.",
                            <<canvas_id>>))
      ELSE IF Len(canvas) > 1
      THEN Raise(ValueError("We found more than one canvas for %s.",
                            <<canvas_id>>))
      ELSE Ok(canvas[1])

\* Variant of LayerWithId: an id found in both tables is taken from the
\* image layers.
LayerWithId_NoBothCheck(layer_id, text_layers, image_layers) ==
  LET image_layer_match ==
        SelectSeq(image_layers, LAMBDA x : x.layer_id = layer_id)
      text_layer_match ==
        SelectSeq(text_layers, LAMBDA x : x.layer_id = layer_id)
  IN  IF IsEmpty(image_layer_match) /\ IsEmpty(text_layer_match)
      THEN Raise(ValueError(
             "The layer id %s could not be found in either the text layer or the image layer tabs.",
             <<layer_id>>))
      ELSE IF Len(image_layer_match) > 1
      THEN Raise(ValueError(
             "The layer_id %s matched more than one row in the image layer tab.",
             <<layer_id>>))
      ELSE IF Len(text_layer_match) > 1
      THEN Raise(ValueError(
             "The layer_id %s matched more than one row in the text layer tab.",
             <<layer_id>>))
      ELSE IF ~IsEmpty(image_layer_match)
      THEN Ok(image_layer_match[1])
      ELSE Ok(text_layer_match[1])

\* Variant of LayerWithId: several matches in one table are not an error,
\* the first is taken.
LayerWithId_NoDuplicateCheck(layer_id, text_layers, image_layers) ==
  LET image_layer_match ==
        SelectSeq(image_layers, LAMBDA x : x.layer_id = layer_id)
      text_layer_match ==
        SelectSeq(text_layers, LAMBDA x : x.layer_id = layer_id)
  IN  IF ~IsEmpty(image_layer_match) /\ ~IsEmpty(text_layer_match)
      THEN Raise(ValueError(
             "The layer_id %s could be found in both the image layer and the text layer.",
             <<layer_id>>))
      ELSE IF IsEmpty(image_layer_match) /\ IsEmpty(text_layer_match)
      THEN Raise(ValueError(
             "The layer id %s could not be found in either the text layer or the image layer tabs.",
             <<layer_id>>))
      ELSE IF ~IsEmpty(image_layer_match)
      THEN Ok(image_layer_match[1])
      ELSE Ok(text_layer_match[1])

\* One iteration of the column loop: the layer for layer_id, or the error.
LayerWithId(layer_id, text_layers, image_layers) ==
  LET image_layer_match ==
        SelectSeq(image_layers, LAMBDA x : x.layer_id = layer_id)
      text_layer_match ==
        SelectSeq(text_layers, LAMBDA x : x.layer_id = layer_id)
  IN  IF ~IsEmpty(image_layer_match) /\ ~IsEmpty(text_layer_match)
      THEN Raise(ValueError(
             "The layer_id %s could be found in both the image layer and the text layer.",
             <<layer_id>>))
      ELSE IF IsEmpty(image_layer_match) /\ IsEmpty(text_layer_match)
      THEN Raise(ValueError(
             "The layer id %s could not be found in either the text layer or the image layer tabs.",
             <<layer_id>>))
      ELSE IF Len(image_layer_match) > 1
      THEN Raise(ValueError(
             "The layer_id %s matched more than one row in the image layer tab.",
             <<layer_id>>))
      ELSE IF Len(text_layer_match) > 1
      THEN Raise(ValueError(
             "The layer_id %s matched more than one row in the text layer tab.",
             <<layer_id>>))
      ELSE IF ~IsEmpty(image_layer_match)
      THEN Ok(image_layer_match[1])
      ELSE Ok(text_layer_match[1])

\* Variant of LayersLoop: an empty cell is passed over and the scan goes on.
RECURSIVE LayersLoop_SkipsGaps(_, _, _, _, _)
LayersLoop_SkipsGaps(row, column_index, layers, text_layers, image_layers) ==
  IF column_index > _LAYER_COLUMN_END_INDEX_LAYOUT_TAB THEN Ok(layers)
  ELSE LET item == GetItem(row, column_index) IN
    IF ~item.ok THEN item
    ELSE IF IsEmpty(item.value)
    THEN LayersLoop_SkipsGaps(row, column_index + 1, layers, text_layers,
                              image_layers)
    ELSE LET r == LayerWithId(item.value, text_layers, image_layers) IN
      IF r.ok
      THEN LayersLoop_SkipsGaps(row, column_index + 1,
                                Append(layers, r.value), text_layers,
                                image_layers)
      ELSE r

RECURSIVE LayersLoop(_, _, _, _, _)
LayersLoop(row, column_index, layers, text_layers, image_layers) ==
  IF column_index > _LAYER_COLUMN_END_INDEX_LAYOUT_TAB THEN Ok(layers)
  ELSE LET item == GetItem(row, column_index) IN
    IF ~item.ok THEN item
    ELSE IF IsEmpty(item.value) THEN Ok(layers)
    ELSE LET r == LayerWithId(item.value, text_layers, image_layers) IN
      IF r.ok
      THEN LayersLoop(row, column_index + 1, Append(layers, r.value),
                      text_layers, image_layers)
      ELSE r

\* Variant of _get_layers_from_layout_row: each layer found is put in front
\* of the list.
_get_layers_from_layout_row_Prepend(row, text_layers, image_layers) ==
  LET r == LayersLoop(row, _LAYER_COLUMN_START_INDEX_LAYOUT_TAB, <<>>,
                      text_layers, image_layers)
  IN  IF r.ok
      THEN Ok([j \in 1..Len(r.value) |-> r.value[Len(r.value) + 1 - j]])
      ELSE r

_get_layers_from_layout_row(row, text_layers, image_layers) ==
  LayersLoop(row, _LAYER_COLUMN_START_INDEX_LAYOUT_TAB, <<>>, text_layers,
             image_layers)

\* The try block of get_layouts for one row: the Layout, or what it raised.
LayoutFromRow(row, text_layers, image_layers, canvases) ==
  LET output_filename == Cell(row, _LAYOUT_OUTPUT_FILENAME_COLUMN)
      canvas == _get_canvas_with_id_from_canvases(
                  Cell(row, _LAYOUT_CANVAS_ID_COLUMN), canvases)
      layers == _get_layers_from_layout_row(row, text_layers, image_layers)
  IN  IF ~canvas.ok THEN canvas
      ELSE IF ~layers.ok THEN layers
      ELSE Layout(canvas.value, output_filename, layers.value)

\* ------------------------------------------------------------------------
\* The spreadsheet: what get_all_values can return for each tab
\* ------------------------------------------------------------------------
SeqsUpTo(S, n) == UNION {[1..k -> S] : k \in 0..n}

\* A row of n cells starting with `cells`, the remaining cells empty.
PadRow(cells, n) == [i \in 1..n |-> IF i <= Len(cells) THEN cells[i] ELSE <<>>]

TextHeaderRow ==
  <<_LAYER_ID_COLUMN_HEADER, <<"s">>, <<"r">>, <<"g">>, <<"b">>, <<"x">>,
    <<"y">>, <<"t">>>>
TextRow(layer_id, font_size) ==
  <<layer_id, font_size, <<"2", "5", "5">>, <<"0">>, <<"7">>, <<"1">>,
    <<"2">>, <<"h", "i">>>>
TextRowChoices ==
  {TextHeaderRow, TextRow(<<"b">>, <<"1", "2">>), TextRow(<<"b">>, <<"p", "t">>)}

ImageHeaderRow ==
  <<_LAYER_ID_COLUMN_HEADER, <<"w">>, <<"h">>, <<"x">>, <<"y">>, <<"f">>>>
ImageRow(layer_id, width) ==
  <<layer_id, width, <<"5", "0">>, <<"0">>, <<"3">>,
    layer_id \o <<".", "p", "n", "g">>>>
ImageRowChoices ==
  {ImageHeaderRow, ImageRow(<<"a">>, <<"1", "0", "0">>),
   ImageRow(<<"b">>, <<"1", "0", "0">>), ImageRow(<<"a">>, <<"-", "1">>)}

CanvasHeaderRow == <<_CANVAS_ID_COLUMN_HEADER, <<"w">>, <<"h">>>>
CanvasRow(canvas_id, width) == <<canvas_id, width, <<"5", "0">>>>
CanvasRowChoices ==
  {CanvasHeaderRow, CanvasRow(<<"c">>, <<"1", "0", "0">>),
   CanvasRow(<<"c">>, <<>>)}

LayoutHeaderRow ==
  PadRow(<<_LAYOUT_HEADER_FIRST_COLUMN_, _CANVAS_ID_COLUMN_HEADER,
           <<"l", "1">>>>, _NUMBER_OF_COLUMNS_IN_LAYOUT_TAB)
LayoutRowChoices ==
  { LayoutHeaderRow,
    PadRow(<< <<"x">>, <<"c">>, <<"a">> >>, _NUMBER_OF_COLUMNS_IN_LAYOUT_TAB),
    PadRow(<< <<"y">>, <<"c">>, <<"a">>, <<"b">> >>,
           _NUMBER_OF_COLUMNS_IN_LAYOUT_TAB),
    PadRow(<< <<"x">>, <<"d">>, <<"b">> >>, _NUMBER_OF_COLUMNS_IN_LAYOUT_TAB),
    PadRow(<< <<"x">>, <<"c">>, <<>>, <<"b">> >>,
           _NUMBER_OF_COLUMNS_IN_LAYOUT_TAB),
    PadRow(<< <<"x">>, <<"c">>, <<"a">> >>,
           _NUMBER_OF_COLUMNS_IN_LAYOUT_TAB - 1) }

TextTabs == SeqsUpTo(TextRowChoices, MaxTabRows)
ImageTabs == SeqsUpTo(ImageRowChoices, MaxTabRows)
CanvasTabs == SeqsUpTo(CanvasRowChoices, MaxTabRows)
LayoutTabs == SeqsUpTo(LayoutRowChoices, MaxLayoutRows)

\* Constructor arguments of the loader; both are non-empty.
ImageDirectoryPaths == {<<"i", "m", "g">>}
FontFilePaths == {<<"f", ".", "t", "t", "f">>}

\* ------------------------------------------------------------------------
\* State
\* ------------------------------------------------------------------------
VARIABLES
  image_directory_path,    \* self._image_directory_path
  default_font_file_path,  \* self._default_font_file_path
  pc,                      \* where get_layouts is
  all_rows_layout,         \* get_layouts' local
  all_rows_text_layer,     \* get_text_layers' local, dropped at its return
  all_rows_image_layer,    \* get_image_layers' local, dropped at its return
  all_rows_canvas,         \* get_canvases' local, dropped at its return
  text_layers, image_layers, canvases,
  index,                   \* 0-based position of the row loop
  layouts,                 \* get_layouts' local list
  raised,                  \* <<e>> once get_layouts raised e
  returned,                \* <<list>> once get_layouts returned list
  \* A table getter called on its own.
  tab,                     \* the tab the getter reads
  tab_pc,                  \* where the getter is
  all_rows_tab,            \* the rows _get_all_values_for_tab returned
  tab_result,              \* <<r>> once the getter returned or raised
  \* An entity constructor called on its own.
  built,                   \* <<[class, args, result]>> once a constructor ran
  \* LayerMixer and ImageMixMain.generate_creatives.
  _image,                  \* <<self._image>> of the current LayerMixer
  mixer_pc,                \* "none", "ready" or "raised"
  calls,                   \* the calls made on LayerMixer objects, in order
  files,                   \* the file system: readable and unwritable paths
  saved,                   \* the files written, in order
  gc_pc,                   \* where generate_creatives is
  gc_layouts,              \* generate_creatives' local `layouts`
  gc_index,                \* 0-based position of its loop
  gc_raised,               \* <<e>> once generate_creatives raised e
  _output_path,            \* self._output_path of ImageMixMain
  made_dirs,               \* the directories os.makedirs was called for
  \* The constructors of SpreadSheetLoader and ImageMixMain.
  init_pc,                 \* where the constructor is
  init_args,               \* its arguments
  init_calls,              \* the calls it made, in order
  init_raised,             \* <<e>> once it raised e
  \* get_layouts called twice on one spreadsheet.
  snapshot,                \* <<the four tabs>> of the spreadsheet
  first                    \* <<the outcome of the first call>>

\* The state of get_layouts.
get_layouts_vars ==
  <<image_directory_path, default_font_file_path, pc, all_rows_layout,
    all_rows_text_layer, all_rows_image_layer, all_rows_canvas,
    text_layers, image_layers, canvases, index, layouts, raised, returned>>

\* The state of a table getter called on its own.
tab_vars == <<tab, tab_pc, all_rows_tab, tab_result>>

\* The state of an entity constructor called on its own.
entity_vars == <<built>>

\* The state of a LayerMixer and of generate_creatives.
render_vars ==
  <<_image, mixer_pc, calls, files, saved, gc_pc, gc_layouts, gc_index,
    gc_raised, _output_path, made_dirs>>

\* The state of a constructor of SpreadSheetLoader or ImageMixMain.
init_vars == <<init_pc, init_args, init_calls, init_raised>>

\* The state of a second call of get_layouts.
twice_vars == <<snapshot, first>>

vars ==
  <<get_layouts_vars, tab_vars, entity_vars, render_vars, init_vars,
    twice_vars>>

\* What get_layouts, a table getter and an entity constructor leave alone.
other_calls == <<tab_vars, entity_vars, render_vars, init_vars, twice_vars>>
not_tab_vars ==
  <<get_layouts_vars, entity_vars, render_vars, init_vars, twice_vars>>
not_entity_vars ==
  <<get_layouts_vars, tab_vars, render_vars, init_vars, twice_vars>>

config == <<image_directory_path, default_font_file_path>>

\* No table getter is called on its own.
NoTabCall ==
  /\ tab = "none"
  /\ tab_pc = "idle"
  /\ all_rows_tab = <<>>
  /\ tab_result = <<>>

\* No entity constructor is called on its own.
NoEntityCall == built = <<>>

\* No LayerMixer exists and generate_creatives is not running.
NoRenderCall ==
  /\ _image = <<>>
  /\ mixer_pc = "none"
  /\ calls = <<>>
  /\ files = [readable |-> {}, unwritable |-> {}]
  /\ saved = <<>>
  /\ gc_pc = "idle"
  /\ gc_layouts = <<>>
  /\ gc_index = 0
  /\ gc_raised = <<>>
  /\ _output_path = <<>>
  /\ made_dirs = <<>>

\* No constructor of SpreadSheetLoader or ImageMixMain is running.
NoInitCall ==
  /\ init_pc = "idle"
  /\ init_args = <<>>
  /\ init_calls = <<>>
  /\ init_raised = <<>>

\* get_layouts is not called a second time.
NoSecondCall ==
  /\ snapshot = <<>>
  /\ first = <<>>

Init ==
  /\ image_directory_path \in ImageDirectoryPaths
  /\ default_font_file_path \in FontFilePaths
  /\ pc = "start"
  /\ all_rows_layout = <<>>
  /\ all_rows_text_layer = <<>>
  /\ all_rows_image_layer = <<>>
  /\ all_rows_canvas = <<>>
  /\ text_layers = <<>>
  /\ image_layers = <<>>
  /\ canvases = <<>>
  /\ index = 0
  /\ layouts = <<>>
  /\ raised = <<>>
  /\ returned = <<>>
  /\ NoTabCall
  /\ NoEntityCall
  /\ NoRenderCall
  /\ NoInitCall
  /\ NoSecondCall

\* get_layouts raises e: its locals are gone, nothing is returned.
RaiseFromGetLayouts(e) ==
  /\ pc' = "raised"
  /\ raised' = <<e>>
  /\ returned' = <<>>

\* Variant of LayoutTabIsEmpty: only a tab without any row is empty.
LayoutTabIsEmpty_NoRowAtAll(rows) == Len(rows) < 1

\* Line 259: the test that rejects the LAYOUT tab as empty.
LayoutTabIsEmpty(rows) == Len(rows) < 2

\* Variant of ImageLayersMissing: the check is left out.
ImageLayersMissing_Unchecked(layers) == FALSE

\* Line 265: `if not image_layers`.
ImageLayersMissing(layers) == IsEmpty(layers)

\* Line 269: `if not canvases`.
CanvasesMissing(cs) == IsEmpty(cs)

\* Variant of LayoutRowError: the message carries the 0-based position.
LayoutRowError_ZeroBased(i, origin) ==
  ErrorFrom("ValueError",
    "Failed to create a layout object from row number %d. Please check the spreadsheet's LAYOUT tab on that particular row.",
    <<i>>, origin)

\* Lines 285-289: the error raised for the row at 0-based position i, from
\* the error the try block caught.
LayoutRowError(i, origin) ==
  ErrorFrom("ValueError",
    "Failed to create a layout object from row number %d. Please check the spreadsheet's LAYOUT tab on that particular row.",
    <<i + 1>>, origin)

\* Variant of FailRow: the failing row is skipped and the loop goes on.
FailRow_SkipRow(e) ==
  /\ index' = index + 1
  /\ UNCHANGED <<pc, layouts, raised, returned>>

\* An exception leaves the row loop: the loop stops where it is, the list
\* built so far stays behind in the frame and nothing is returned.
FailRow(e) ==
  /\ RaiseFromGetLayouts(e)
  /\ UNCHANGED <<index, layouts>>

\* Variant of ReadLayoutTab: the LAYOUT tab is not checked for emptiness
\* before the other tabs are read.
ReadLayoutTab_NoEmptinessCheck ==
  /\ pc = "start"
  /\ \E rows \in LayoutTabs : all_rows_layout' = rows
  /\ pc' = "get_text_layers"
  /\ UNCHANGED <<config, all_rows_text_layer, all_rows_image_layer,
                 all_rows_canvas, text_layers, image_layers, canvases, index,
                 layouts, raised, returned>>
  /\ UNCHANGED other_calls

\* Lines 257-261: read the LAYOUT tab and check that it is not empty.
ReadLayoutTab ==
  /\ pc = "start"
  /\ \E rows \in LayoutTabs :
       /\ all_rows_layout' = rows
       /\ IF LayoutTabIsEmpty(rows)
          THEN RaiseFromGetLayouts(ValueError(
                 "Layout tab must have a header and at least one record. The current LAYOUT Tab is empty.",
                 <<>>))
          ELSE pc' = "get_text_layers" /\ UNCHANGED <<raised, returned>>
  /\ UNCHANGED <<config, all_rows_text_layer, all_rows_image_layer,
                 all_rows_canvas, text_layers, image_layers, canvases, index,
                 layouts>>
  /\ UNCHANGED other_calls

\* Line 149: get_text_layers reads the TEXT_LAYER tab.
ReadTextLayerTab ==
  /\ pc = "get_text_layers"
  /\ \E rows \in TextTabs : all_rows_text_layer' = rows
  /\ pc' = "text_layers_loop"
  /\ UNCHANGED <<config, all_rows_layout, all_rows_image_layer,
                 all_rows_canvas, text_layers, image_layers, canvases, index,
                 layouts, raised, returned>>
  /\ UNCHANGED other_calls

\* Lines 151-174 and 263: the loop of get_text_layers, and its return.
GetTextLayers ==
  /\ pc = "text_layers_loop"
  /\ LET r == get_text_layers(all_rows_text_layer, default_font_file_path) IN
       IF r.ok
       THEN /\ text_layers' = r.value
            /\ pc' = "get_image_layers"
            /\ UNCHANGED <<raised, returned>>
       ELSE /\ RaiseFromGetLayouts(r.error)
            /\ UNCHANGED text_layers
  /\ all_rows_text_layer' = <<>>
  /\ UNCHANGED <<config, all_rows_layout, all_rows_image_layer,
                 all_rows_canvas, image_layers, canvases, index, layouts>>
  /\ UNCHANGED other_calls

\* Line 189: get_image_layers reads the IMAGE_LAYER tab.
ReadImageLayerTab ==
  /\ pc = "get_image_layers"
  /\ \E rows \in ImageTabs : all_rows_image_layer' = rows
  /\ pc' = "image_layers_loop"
  /\ UNCHANGED <<config, all_rows_layout, all_rows_text_layer,
                 all_rows_canvas, text_layers, image_layers, canvases, index,
                 layouts, raised, returned>>
  /\ UNCHANGED other_calls

\* Lines 191-212 and 264-267: the loop of get_image_layers, its return and
\* the check that there is an image layer.
GetImageLayers ==
  /\ pc = "image_layers_loop"
  /\ LET r == get_image_layers(all_rows_image_layer, image_directory_path) IN
       IF ~r.ok
       THEN /\ RaiseFromGetLayouts(r.error)
            /\ UNCHANGED image_layers
       ELSE /\ image_layers' = r.value
            /\ IF ImageLayersMissing(r.value)
               THEN RaiseFromGetLayouts(ValueError(
                      "The spreadsheet needs to have at least one image layer record.",
                      <<>>))
               ELSE pc' = "get_canvases" /\ UNCHANGED <<raised, returned>>
  /\ all_rows_image_layer' = <<>>
  /\ UNCHANGED <<config, all_rows_layout, all_rows_text_layer,
                 all_rows_canvas, text_layers, canvases, index, layouts>>
  /\ UNCHANGED other_calls

\* Line 225: get_canvases reads the CANVAS tab.
ReadCanvasTab ==
  /\ pc = "get_canvases"
  /\ \E rows \in CanvasTabs : all_rows_canvas' = rows
  /\ pc' = "canvases_loop"
  /\ UNCHANGED <<config, all_rows_layout, all_rows_text_layer,
                 all_rows_image_layer, text_layers, image_layers, canvases,
                 index, layouts, raised, returned>>
  /\ UNCHANGED other_calls

\* Lines 227-244 and 268-272: the loop of get_canvases, its return, the
\* check that there is a canvas, and the start of the row loop.
GetCanvases ==
  /\ pc = "canvases_loop"
  /\ LET r == get_canvases(all_rows_canvas) IN
       IF ~r.ok
       THEN /\ RaiseFromGetLayouts(r.error)
            /\ UNCHANGED canvases
       ELSE /\ canvases' = r.value
            /\ IF CanvasesMissing(r.value)
               THEN RaiseFromGetLayouts(ValueError(
                      "The spreadsheet needs to have at least one canvas.",
                      <<>>))
               ELSE pc' = "layout_rows" /\ UNCHANGED <<raised, returned>>
  /\ all_rows_canvas' = <<>>
  /\ UNCHANGED <<config, all_rows_layout, all_rows_text_layer,
                 all_rows_image_layer, text_layers, image_layers, index,
                 layouts>>
  /\ UNCHANGED other_calls

\* Variant of LayoutRow: a header row is skipped before it is validated.
LayoutRow_HeaderUnchecked ==
  /\ pc = "layout_rows"
  /\ index < Len(all_rows_layout)
  /\ LET row == all_rows_layout[index + 1]
         valid == _validate_layout_row(row)
         layout == LayoutFromRow(row, text_layers, image_layers, canvases)
     IN  IF ~IsEmpty(row) /\ Cell(row, 0) = _LAYOUT_HEADER_FIRST_COLUMN_
         THEN /\ index' = index + 1
              /\ UNCHANGED <<pc, layouts, raised, returned>>
         ELSE IF ~valid.ok
         THEN FailRow(valid.error)
         ELSE IF layout.ok
         THEN /\ layouts' = Append(layouts, layout.value)
              /\ index' = index + 1
              /\ UNCHANGED <<pc, raised, returned>>
         ELSE FailRow(LayoutRowError(index, layout.error))
  /\ UNCHANGED <<config, all_rows_layout, all_rows_text_layer,
                 all_rows_image_layer, all_rows_canvas, text_layers,
                 image_layers, canvases>>
  /\ UNCHANGED other_calls

\* Lines 273-289: one iteration of the row loop of get_layouts.
LayoutRow ==
  /\ pc = "layout_rows"
  /\ index < Len(all_rows_layout)
  /\ LET row == all_rows_layout[index + 1]
         valid == _validate_layout_row(row)
         layout == LayoutFromRow(row, text_layers, image_layers, canvases)
     IN  IF ~valid.ok
         THEN FailRow(valid.error)
         ELSE IF Cell(row, 0) = _LAYOUT_HEADER_FIRST_COLUMN_
         THEN /\ index' = index + 1
              /\ UNCHANGED <<pc, layouts, raised, returned>>
         ELSE IF layout.ok
         THEN /\ layouts' = Append(layouts, layout.value)
              /\ index' = index + 1
              /\ UNCHANGED <<pc, raised, returned>>
         ELSE FailRow(LayoutRowError(index, layout.error))
  /\ UNCHANGED <<config, all_rows_layout, all_rows_text_layer,
                 all_rows_image_layer, all_rows_canvas, text_layers,
                 image_layers, canvases>>
  /\ UNCHANGED other_calls

\* Line 291: the row loop is over, get_layouts returns its list.
ReturnLayouts ==
  /\ pc = "layout_rows"
  /\ index = Len(all_rows_layout)
  /\ pc' = "returned"
  /\ returned' = <<layouts>>
  /\ UNCHANGED <<config, all_rows_layout, all_rows_text_layer,
                 all_rows_image_layer, all_rows_canvas, text_layers,
                 image_layers, canvases, index, layouts, raised>>
  /\ UNCHANGED other_calls

Next ==
  \/ ReadLayoutTab
  \/ ReadTextLayerTab
  \/ GetTextLayers
  \/ ReadImageLayerTab
  \/ GetImageLayers
  \/ ReadCanvasTab
  \/ GetCanvases
  \/ LayoutRow
  \/ ReturnLayouts

Spec == Init /\ [][Next]_vars

\* ------------------------------------------------------------------------
\* Vocabulary of the properties
\* ------------------------------------------------------------------------
\* The messages of the errors get_layouts raises.
EmptyLayoutTabMsg ==
  "Layout tab must have a header and at least one record. The current LAYOUT Tab is empty."
NoImageLayerMsg ==
  "The spreadsheet needs to have at least one image layer record."
NoCanvasMsg == "The spreadsheet needs to have at least one canvas."
RowErrorMsg ==
  "Failed to create a layout object from row number %d. Please check the spreadsheet's LAYOUT tab on that particular row."
EmptyRowMsg == "A valid layout row cannot be empty."
ColumnCountMsg ==
  "The row %s doesn't have the right number of column, it has %d instead of 32 columns"
ThreeColumnsMsg ==
  "A layout row should have at least the three first columns with values. We need to have at least one layer. Please check row "
CanvasNotFoundMsg == "Failed to find %s in the list of canvas."
CanvasAmbiguousMsg == "We found more than one canvas for %s."
LayerInBothMsg ==
  "The layer_id %s could be found in both the image layer and the text layer."
LayerNotFoundMsg ==
  "The layer id %s could not be found in either the text layer or the image layer tabs."
ImageDuplicateMsg ==
  "The layer_id %s matched more than one row in the image layer tab."
TextDuplicateMsg ==
  "The layer_id %s matched more than one row in the text layer tab."

\* Rows of the LAYOUT tab.
IsHeaderRow(row) == Len(row) > 0 /\ row[1] = _LAYOUT_HEADER_FIRST_COLUMN_
HasThirtyTwoCells(row) == Len(row) = 32
WellFormed(row) ==
  /\ HasThirtyTwoCells(row)
  /\ row[1] # <<>> /\ row[2] # <<>> /\ row[3] # <<>>
DataRow(row) == WellFormed(row) /\ ~IsHeaderRow(row)

\* The scanned layer cells of a well-formed row: the leading non-empty ones.
NumScanned(row) ==
  CHOOSE n \in 0..30 :
    /\ \A k \in 1..n : row[2 + k] # <<>>
    /\ n = 30 \/ row[3 + n] = <<>>
ScannedIds(row) == SubSeq(row, 3, 2 + NumScanned(row))

\* How many parsed entities carry an id.
NumImage(id) == Cardinality({k \in DOMAIN image_layers : image_layers[k].layer_id = id})
NumText(id) == Cardinality({k \in DOMAIN text_layers : text_layers[k].layer_id = id})
NumCanvas(id) == Cardinality({k \in DOMAIN canvases : canvases[k].canvas_id = id})

Resolves(id) == NumImage(id) + NumText(id) = 1
InBoth(id) == NumImage(id) > 0 /\ NumText(id) > 0
InNeither(id) == NumImage(id) = 0 /\ NumText(id) = 0
DuplicateInImage(id) == NumImage(id) > 1 /\ NumText(id) = 0
DuplicateInText(id) == NumText(id) > 1 /\ NumImage(id) = 0

CanvasResolves(row) == NumCanvas(row[2]) = 1
LayersResolve(row) == \A j \in 1..NumScanned(row) : Resolves(row[2 + j])
\* The first scanned id of the row that does not resolve.
FirstUnresolved(row) ==
  LET j == CHOOSE j \in 1..NumScanned(row) :
             /\ ~Resolves(row[2 + j])
             /\ \A k \in 1..(j - 1) : Resolves(row[2 + k])
  IN  row[2 + j]

\* get_layouts got as far as its row loop (it then holds a canvas).
InRowLoop == pc \in {"layout_rows", "returned"} \/ (pc = "raised" /\ canvases # <<>>)
\* The row loop has acted on the i-th row (1-based) of the LAYOUT tab.
Processed(i) ==
  /\ InRowLoop
  /\ i \in 1..Len(all_rows_layout)
  /\ index >= i \/ (pc = "raised" /\ index = i - 1)

\* get_layouts raised the row-wrapping error for the i-th row.
RaisedRowError(i) ==
  /\ pc = "raised"
  /\ Len(raised) = 1
  /\ raised[1].type = "ValueError"
  /\ raised[1].msg = RowErrorMsg
  /\ raised[1].args = <<i>>
  /\ Len(raised[1].cause) = 1
RaisedRowErrorFrom(i, msg, args) ==
  /\ RaisedRowError(i)
  /\ raised[1].cause[1].type = "ValueError"
  /\ raised[1].cause[1].msg = msg
  /\ raised[1].cause[1].args = args

\* get_layouts raised this error itself: no wrapping, no cause.
RaisedDirectly(msg, args) ==
  /\ pc = "raised"
  /\ Len(raised) = 1
  /\ raised[1].type = "ValueError"
  /\ raised[1].msg = msg
  /\ raised[1].args = args
  /\ raised[1].cause = <<>>

\* ------------------------------------------------------------------------
\* Properties
\* ------------------------------------------------------------------------
\* The underlying error of a well-formed data row whose references do not
\* resolve: the canvas is looked up before the layers.
ReferenceError(row, msg, args) ==
  IF NumCanvas(row[2]) = 0
  THEN msg = CanvasNotFoundMsg /\ args = <<row[2]>>
  ELSE IF NumCanvas(row[2]) > 1
  THEN msg = CanvasAmbiguousMsg /\ args = <<row[2]>>
  ELSE LET id == FirstUnresolved(row) IN
    /\ args = <<id>>
    /\ msg = IF InBoth(id) THEN LayerInBothMsg
             ELSE IF InNeither(id) THEN LayerNotFoundMsg
             ELSE IF NumImage(id) > 1 THEN ImageDuplicateMsg
             ELSE TextDuplicateMsg

\* C1: when the row loop of get_layouts acts on a well-formed, non-header
\* row whose canvas id matches zero or several parsed canvases, or one of
\* whose scanned layer ids matches no layer, both an image and a text layer,
\* or several rows of one layer table, get_layouts raises a ValueError that
\* names the row's 1-based position in the raw LAYOUT rows (headers counted)
\* and whose cause is the underlying lookup error.
C1_RowErrorNamesRow ==
  \A i \in 1..Len(all_rows_layout) :
    LET row == all_rows_layout[i] IN
      (Processed(i) /\ DataRow(row)
         /\ ~(CanvasResolves(row) /\ LayersResolve(row)))
      => /\ RaisedRowError(i)
         /\ ReferenceError(row, raised[1].cause[1].msg, raised[1].cause[1].args)
         /\ raised[1].cause[1].type = "ValueError"
         /\ raised[1].cause[1].cause = <<>>

\* C1 witness: the first row after one header does not resolve its canvas
\* and the error names row 2.
C1_Witness ==
  /\ Len(all_rows_layout) = 2
  /\ IsHeaderRow(all_rows_layout[1])
  /\ DataRow(all_rows_layout[2])
  /\ NumCanvas(all_rows_layout[2][2]) = 0
  /\ RaisedRowErrorFrom(2, CanvasNotFoundMsg, <<all_rows_layout[2][2]>>)

\* What _validate_layout_row raises for a row that is not well-formed.
ValidationError(row, msg, args) ==
  IF Len(row) = 0 THEN msg = EmptyRowMsg /\ args = <<>>
  ELSE IF ~HasThirtyTwoCells(row)
  THEN msg = ColumnCountMsg /\ args = <<row, Len(row)>>
  ELSE msg = ThreeColumnsMsg /\ args = <<row>>

\* C2 as stated: a row with the wrong number of cells or an empty
\* output-name, canvas-id or first-layer cell makes get_layouts fail with
\* the row-wrapping error, naming the row's 1-based index and keeping the
\* malformed-row error as its cause.
C2_MalformedRowIsWrapped ==
  \A i \in 1..Len(all_rows_layout) :
    (Processed(i) /\ ~WellFormed(all_rows_layout[i])) => RaisedRowError(i)

\* C2 amended: such a row makes get_layouts fail with the row-validation
\* ValueError itself: it is not wrapped, has no cause and names no row
\* index; its message quotes the row's cells.
C2_MalformedRowRaisesDirectly ==
  \A i \in 1..Len(all_rows_layout) :
    LET row == all_rows_layout[i] IN
      (Processed(i) /\ ~WellFormed(row))
      => /\ pc = "raised" /\ Len(raised) = 1
         /\ raised[1].type = "ValueError"
         /\ raised[1].cause = <<>>
         /\ raised[1].msg # RowErrorMsg
         /\ ValidationError(row, raised[1].msg, raised[1].args)

\* C2 witness: a row of 31 cells, second in the tab, was rejected with the
\* column-count error raised directly.
C2_Witness ==
  /\ Len(all_rows_layout) = 2
  /\ Len(all_rows_layout[2]) = 31
  /\ Processed(2)
  /\ RaisedDirectly(ColumnCountMsg, <<all_rows_layout[2], 31>>)

\* A row of 32 cells with output name and canvas id but no first layer.
NoLayerRow(row) ==
  /\ HasThirtyTwoCells(row)
  /\ row[1] # <<>> /\ row[2] # <<>> /\ row[3] = <<>>

\* C3: when the row loop reaches a row of 32 cells with a non-empty output
\* name and canvas id and an empty first-layer cell, get_layouts raises a
\* ValueError whose own message starts with 'A layout row should have at
\* least the three first columns with values. ...', followed by the row; a
\* LAYOUT tab holding such a row never makes get_layouts return, so no
\* Layout is produced for it.
C3_NoLayerRowRejected ==
  /\ \A i \in 1..Len(all_rows_layout) :
       (Processed(i) /\ NoLayerRow(all_rows_layout[i]))
       => RaisedDirectly(ThreeColumnsMsg, <<all_rows_layout[i]>>)
  /\ (\E i \in 1..Len(all_rows_layout) : NoLayerRow(all_rows_layout[i]))
       => /\ pc # "returned" /\ returned = <<>>
          /\ \A i \in 1..Len(all_rows_layout) :
               NoLayerRow(all_rows_layout[i]) => Len(layouts) < i

\* C3 witness: a header, then a row without layers, rejected with that
\* message.
C3_Witness ==
  /\ Len(all_rows_layout) = 2
  /\ IsHeaderRow(all_rows_layout[1])
  /\ NoLayerRow(all_rows_layout[2])
  /\ RaisedDirectly(ThreeColumnsMsg, <<all_rows_layout[2]>>)
  /\ layouts = <<>>

\* Every row of a tab is a header row of that tab.
NoDataRows(rows, header) ==
  \A i \in 1..Len(rows) : Len(rows[i]) > 0 /\ rows[i][1] = header

\* C4 as stated: get_layouts raises the empty-LAYOUT-table error exactly
\* when the raw LAYOUT table holds no data row (it is empty or holds only
\* header rows), whether or not a header row is present.
C4_EmptyErrorIffNoDataRow ==
  pc # "start" =>
    (RaisedDirectly(EmptyLayoutTabMsg, <<>>)
       <=> NoDataRows(all_rows_layout, _LAYOUT_HEADER_FIRST_COLUMN_))

\* C4 amended: get_layouts raises the empty-LAYOUT-table error exactly when
\* the raw LAYOUT table has fewer than two rows, whatever the rows hold.
C4_EmptyErrorIffFewerThanTwoRows ==
  pc # "start" =>
    (RaisedDirectly(EmptyLayoutTabMsg, <<>>) <=> Len(all_rows_layout) < 2)

\* C4 witness: a LAYOUT table made of one well-formed data row and no
\* header is rejected as empty.
C4_Witness ==
  /\ Len(all_rows_layout) = 1
  /\ DataRow(all_rows_layout[1])
  /\ RaisedDirectly(EmptyLayoutTabMsg, <<>>)

\* C5: once the LAYOUT table has passed the emptiness check, an
\* IMAGE_LAYER table that yields no image layer, or a CANVAS table that
\* yields no canvas, makes get_layouts raise the missing-data error naming
\* that collection, whatever the layout rows reference; a TEXT_LAYER table
\* that yields no text layer lets get_layouts go on to the image layers.
C5_MissingData ==
  [][ /\ (pc = "image_layers_loop"
            /\ NoDataRows(all_rows_image_layer, _LAYER_ID_COLUMN_HEADER))
         => /\ pc' = "raised"
            /\ raised' = <<[type |-> "ValueError", msg |-> NoImageLayerMsg,
                            args |-> <<>>, cause |-> <<>>]>>
      /\ (pc = "canvases_loop"
            /\ NoDataRows(all_rows_canvas, _CANVAS_ID_COLUMN_HEADER))
         => /\ pc' = "raised"
            /\ raised' = <<[type |-> "ValueError", msg |-> NoCanvasMsg,
                            args |-> <<>>, cause |-> <<>>]>>
      /\ (pc = "text_layers_loop"
            /\ NoDataRows(all_rows_text_layer, _LAYER_ID_COLUMN_HEADER))
         => /\ pc' = "get_image_layers"
            /\ text_layers' = <<>>
            /\ raised' = <<>>
      /\ (pc' \in {"get_canvases", "canvases_loop", "layout_rows", "returned"})
         => image_layers' # <<>>
      /\ (pc' \in {"layout_rows", "returned"}) => canvases' # <<>>
    ]_vars

\* C5 witness: the LAYOUT table passed the emptiness check, there is a text
\* layer, the IMAGE_LAYER table yielded nothing and get_layouts raised the
\* missing-image-layer error.
C5_Witness ==
  /\ Len(all_rows_layout) >= 2
  /\ text_layers # <<>>
  /\ image_layers = <<>>
  /\ RaisedDirectly(NoImageLayerMsg, <<>>)

\* The 1-based position in the LAYOUT tab of the k-th non-header row.
DataRowIndex(k) ==
  CHOOSE i \in 1..Len(all_rows_layout) :
    /\ ~IsHeaderRow(all_rows_layout[i])
    /\ Cardinality({m \in 1..i : ~IsHeaderRow(all_rows_layout[m])}) = k

\* e is one of the parsed layer entities.
IsParsedLayer(e) ==
  IF e.class = "ImageLayer"
  THEN \E m \in DOMAIN image_layers : image_layers[m] = e
  ELSE \E m \in DOMAIN text_layers : text_layers[m] = e

\* C6: the layers of every Layout built are the parsed entities whose
\* layer_id equals the row's leading non-empty layer cells, one entity per
\* cell, in column order (first cell = bottom layer).
C6_LayersFollowCells ==
  \A k \in 1..Len(layouts) :
    LET row == all_rows_layout[DataRowIndex(k)]
        layers == layouts[k].layers
    IN  /\ Len(layers) = NumScanned(row)
        /\ \A j \in 1..Len(layers) :
             /\ layers[j].layer_id = row[2 + j]
             /\ IsParsedLayer(layers[j])

\* C6 witness: get_layouts returned a Layout for a row with layer cells
\* [a, b, '', ...]: two layers, the image layer a below the text layer b.
C6_Witness ==
  /\ pc = "returned"
  /\ \E k \in 1..Len(returned[1]) :
       LET layers == returned[1][k].layers IN
         /\ Len(layers) = 2
         /\ layers[1].layer_id = <<"a">> /\ layers[1].class = "ImageLayer"
         /\ layers[2].layer_id = <<"b">> /\ layers[2].class = "TextLayer"

\* Some layer_id is carried by an image layer and by a text layer.
SharedIds ==
  {image_layers[m].layer_id : m \in DOMAIN image_layers}
    \cap {text_layers[m].layer_id : m \in DOMAIN text_layers}

\* C7 as stated: whenever a layer_id occurs in both the IMAGE_LAYER and the
\* TEXT_LAYER table, get_layouts fails, with the origin-ambiguity error: it
\* never returns, and an error about that id is the ambiguity error.
C7_SharedIdAlwaysFails ==
  \A id \in SharedIds :
    /\ pc # "returned"
    /\ (pc = "raised" /\ Len(raised[1].cause) = 1
          /\ raised[1].cause[1].args = <<id>>)
       => raised[1].cause[1].msg = LayerInBothMsg

\* The i-th row references, in scanned cell j, an id the lookup reaches.
LookupReaches(row, j) ==
  /\ DataRow(row)
  /\ CanvasResolves(row)
  /\ j \in 1..NumScanned(row)
  /\ \A k \in 1..(j - 1) : Resolves(row[2 + k])

\* C7 amended: whenever the row loop looks up, for a scanned layer cell of
\* a layout row, a layer_id that occurs in both the IMAGE_LAYER and the
\* TEXT_LAYER table, get_layouts fails with the origin-ambiguity error
\* (wrapped in that row's error), whatever the order of the tables' rows
\* and however many rows carry the id; and it raises that error only for an
\* id that is in both tables.
C7_ReferencedSharedIdFails ==
  /\ \A i \in 1..Len(all_rows_layout) :
       LET row == all_rows_layout[i] IN
         \A j \in 1..30 :
           (Processed(i) /\ LookupReaches(row, j) /\ InBoth(row[2 + j]))
           => RaisedRowErrorFrom(i, LayerInBothMsg, <<row[2 + j]>>)
  /\ (pc = "raised" /\ Len(raised[1].cause) = 1
        /\ raised[1].cause[1].msg = LayerInBothMsg)
     => raised[1].cause[1].args[1] \in SharedIds

\* C7 witness: layer b is an image layer and a text layer, the second
\* layer cell of a row references it, and get_layouts raised the
\* ambiguity error for that row.
C7_Witness ==
  /\ <<"b">> \in SharedIds
  /\ \E i \in 1..Len(all_rows_layout) :
       /\ DataRow(all_rows_layout[i])
       /\ all_rows_layout[i][4] = <<"b">>
       /\ RaisedRowErrorFrom(i, LayerInBothMsg, <<<<"b">>>>)

\* The rows of a tab that are not header rows of that tab, in order.
NonHeaderRows(rows, header) ==
  SelectSeq(rows, LAMBDA r : ~(Len(r) > 0 /\ r[1] = header))

\* A getter's result holds one entity per non-header row, in row order,
\* rows that share a layer_id included.
OneLayerPerRow(rows, result) ==
  LET data == NonHeaderRows(rows, _LAYER_ID_COLUMN_HEADER) IN
    /\ Len(result) = Len(data)
    /\ \A k \in 1..Len(data) : result[k].layer_id = data[k][1]

\* A getter that raised did so for a row it rejects on its own, never for
\* a layer_id the row shares with another row.
RaisedForRowAlone(rows, rejected) ==
  /\ Len(raised') = 1
  /\ raised'[1].args # <<>>
  /\ raised'[1].args[1] \in 1..Len(rows)
  /\ rejected[raised'[1].args[1]]

\* The 1-based row i makes the lookup reach an id duplicated in one table.
ReachesDuplicate(i) ==
  \E j \in 1..30 :
    /\ LookupReaches(all_rows_layout[i], j)
    /\ DuplicateInImage(all_rows_layout[i][2 + j])
         \/ DuplicateInText(all_rows_layout[i][2 + j])

RaisedDuplicate ==
  /\ pc = "raised"
  /\ Len(raised[1].cause) = 1
  /\ raised[1].cause[1].msg \in {ImageDuplicateMsg, TextDuplicateMsg}

\* What get_layouts holds about duplicates in any state of its row loop.
DuplicateOnlyAtLookup ==
  /\ \A i \in 1..Len(all_rows_layout) :
       (Processed(i) /\ ReachesDuplicate(i))
       => /\ RaisedRowError(i)
          /\ RaisedDuplicate
          /\ LET id == raised[1].cause[1].args[1] IN
               IF raised[1].cause[1].msg = ImageDuplicateMsg
               THEN DuplicateInImage(id) ELSE DuplicateInText(id)
  /\ RaisedDuplicate
     => /\ InRowLoop
        /\ RaisedRowError(index + 1)
        /\ ReachesDuplicate(index + 1)

\* C8: a layer_id carried by several rows of one layer table is rejected
\* only at lookup time: get_image_layers and get_text_layers return one
\* entity per non-header row, duplicates included, and raise only for a row
\* they reject on its own; get_layouts raises the duplicate-id error,
\* wrapped with the row number, if and only if the lookup for a scanned
\* cell of that row reaches an id duplicated in one table and absent from
\* the other (no earlier check failing first).
C8_DuplicateOnlyAtLookup ==
  [][ /\ (pc = "image_layers_loop")
         => IF pc' = "raised" /\ raised'[1].msg # NoImageLayerMsg
            THEN RaisedForRowAlone(all_rows_image_layer,
                   [i \in 1..Len(all_rows_image_layer) |->
                      ~get_image_layers(<<all_rows_image_layer[i]>>,
                                        image_directory_path).ok])
            ELSE OneLayerPerRow(all_rows_image_layer, image_layers')
      /\ (pc = "text_layers_loop")
         => IF pc' = "raised"
            THEN RaisedForRowAlone(all_rows_text_layer,
                   [i \in 1..Len(all_rows_text_layer) |->
                      ~get_text_layers(<<all_rows_text_layer[i]>>,
                                       default_font_file_path).ok])
            ELSE OneLayerPerRow(all_rows_text_layer, text_layers')
      /\ DuplicateOnlyAtLookup'
    ]_vars

\* C8 witness: two image layers share the id a, both were parsed, and
\* get_layouts raised the image duplicate error for the row that
\* references a.
C8_Witness ==
  /\ Len(image_layers) = 2
  /\ NumImage(<<"a">>) = 2
  /\ \E i \in 1..Len(all_rows_layout) :
       RaisedRowErrorFrom(i, ImageDuplicateMsg, <<<<"a">>>>)

\* C9: every Layout built has as output_filename the first cell of its row
\* and as canvas the one parsed Canvas whose canvas_id is the row's
\* canvas-id cell; a row whose canvas id matches no canvas or several never
\* gets a Layout.
C9_CanvasAndOutputName ==
  /\ \A k \in 1..Len(layouts) :
       LET row == all_rows_layout[DataRowIndex(k)] IN
         /\ layouts[k].output_filename = row[1]
         /\ NumCanvas(row[2]) = 1
         /\ layouts[k].canvas.canvas_id = row[2]
         /\ \E m \in DOMAIN canvases : canvases[m] = layouts[k].canvas
  /\ \A i \in 1..Len(all_rows_layout) :
       (Processed(i) /\ DataRow(all_rows_layout[i])
          /\ NumCanvas(all_rows_layout[i][2]) # 1)
       => pc = "raised" /\ index = i - 1 /\ returned = <<>>
  /\ pc = "returned" => returned = <<layouts>>

\* C9 witness: get_layouts returned a Layout named x on canvas c.
C9_Witness ==
  /\ pc = "returned"
  /\ Len(returned[1]) >= 1
  /\ returned[1][1].output_filename = <<"x">>
  /\ returned[1][1].canvas.canvas_id = <<"c">>
  /\ NumCanvas(<<"c">>) = 1

\* The i-th row of the LAYOUT tab fails when the row loop acts on it.
RowFails(i) ==
  LET row == all_rows_layout[i] IN
    \/ ~WellFormed(row)
    \/ ~IsHeaderRow(row) /\ ~(CanvasResolves(row) /\ LayersResolve(row))

NumDataRowsUpTo(n) ==
  Cardinality({m \in 1..n : ~IsHeaderRow(all_rows_layout[m])})

\* C10: get_layouts is fail-fast with no partial output: rows are taken top
\* to bottom, the loop stops at the first row that fails, the error is that
\* of the lowest-indexed failing row, nothing is returned when a row fails,
\* and on success the result holds one Layout per non-header row in row
\* order.
C10_FailFast ==
  InRowLoop =>
    /\ index \in 0..Len(all_rows_layout)
    /\ \A m \in 1..index : ~RowFails(m)
    /\ Len(layouts) = NumDataRowsUpTo(index)
    /\ \A k \in 1..Len(layouts) :
         layouts[k].output_filename = all_rows_layout[DataRowIndex(k)][1]
    /\ pc = "raised"
       => /\ returned = <<>>
          /\ index < Len(all_rows_layout)
          /\ RowFails(index + 1)
          /\ IF WellFormed(all_rows_layout[index + 1])
             THEN RaisedRowError(index + 1)
             ELSE /\ raised[1].cause = <<>>
                  /\ ValidationError(all_rows_layout[index + 1],
                                     raised[1].msg, raised[1].args)
    /\ pc = "returned"
       => /\ index = Len(all_rows_layout)
          /\ raised = <<>>
          /\ returned = <<layouts>>
          /\ Len(returned[1]) = NumDataRowsUpTo(Len(all_rows_layout))

\* C10 witness: the first row gave a Layout, the second row failed, and
\* get_layouts raised that row's error and returned nothing.
C10_Witness ==
  /\ Len(all_rows_layout) = 2
  /\ Len(layouts) = 1
  /\ index = 1
  /\ RaisedRowError(2)
  /\ returned = <<>>

\* ------------------------------------------------------------------------
\* The table getters called on their own
\* ------------------------------------------------------------------------
MaxRawRows == 3

\* get_layouts is not running.
NoGetLayoutsCall ==
  /\ pc = "idle"
  /\ all_rows_layout = <<>>
  /\ all_rows_text_layer = <<>>
  /\ all_rows_image_layer = <<>>
  /\ all_rows_canvas = <<>>
  /\ text_layers = <<>>
  /\ image_layers = <<>>
  /\ canvases = <<>>
  /\ index = 0
  /\ layouts = <<>>
  /\ raised = <<>>
  /\ returned = <<>>

\* The tabs the three getters read.
_TEXT_LAYER_TAB == "TEXT_LAYER"
_IMAGE_LAYER_TAB == "IMAGE_LAYER"
_CANVAS_TAB == "CANVAS"

\* The rows a tab can hold: headers, rows that parse, a row without cells,
\* a row that lacks its last cell, a row with a cell int() rejects and a
\* row with a value the constructor rejects.
RawTextRows ==
  { TextHeaderRow,
    TextRow(<<"b">>, <<"1", "2">>),
    TextRow(<<"t">>, <<"9">>),
    <<>>,
    SubSeq(TextRow(<<"b">>, <<"1", "2">>), 1, 7),
    TextRow(<<"b">>, <<"p", "t">>),
    [TextRow(<<"b">>, <<"1", "2">>) EXCEPT ![3] = <<"2", "5", "6">>],
    TextRow(<<"n">>, <<" ", "9">>),
    TextRow(<<"n">>, <<"+", "9">>),
    TextRow(<<"n">>, <<"0", "9">>),
    TextRow(<<"n">>, <<"1", "_", "2">>),
    [TextRow(<<"n">>, <<"9">>) EXCEPT ![6] = <<"-", "0">>] }

RawImageRows ==
  { ImageHeaderRow,
    ImageRow(<<"a">>, <<"1", "0", "0">>),
    ImageRow(<<"b">>, <<"1", "0", "0">>),
    <<>>,
    SubSeq(ImageRow(<<"a">>, <<"1", "0", "0">>), 1, 5),
    ImageRow(<<"a">>, <<"1", ".", "5">>),
    ImageRow(<<"a">>, <<"-", "1">>),
    [ImageRow(<<"n">>, <<"1", "0">>) EXCEPT ![6] = <<>>],
    [ImageRow(<<"n">>, <<"1", "0">>) EXCEPT ![6] = <<"/", "z">>] }

RawCanvasRows ==
  { CanvasHeaderRow,
    CanvasRow(<<"c">>, <<"1", "0", "0">>),
    CanvasRow(<<"d">>, <<"0">>),
    <<>>,
    SubSeq(CanvasRow(<<"c">>, <<"1", "0", "0">>), 1, 2),
    CanvasRow(<<"c">>, <<>>),
    CanvasRow(<<"c">>, <<"-", "1">>),
    CanvasRow(<<"n">>, <<"7", " ">>) }

RawTabs(t) ==
  IF t = _TEXT_LAYER_TAB THEN SeqsUpTo(RawTextRows, MaxRawRows)
  ELSE IF t = _IMAGE_LAYER_TAB THEN SeqsUpTo(RawImageRows, MaxRawRows)
  ELSE SeqsUpTo(RawCanvasRows, MaxRawRows)

\* A loader has been constructed and one of its getters is called.
InitTables ==
  /\ image_directory_path \in ImageDirectoryPaths
  /\ default_font_file_path \in FontFilePaths
  /\ NoGetLayoutsCall
  /\ tab \in {_TEXT_LAYER_TAB, _IMAGE_LAYER_TAB, _CANVAS_TAB}
  /\ tab_pc = "call"
  /\ all_rows_tab = <<>>
  /\ tab_result = <<>>
  /\ NoEntityCall
  /\ NoRenderCall
  /\ NoInitCall
  /\ NoSecondCall

\* Lines 149, 189, 225: the getter reads its tab.
ReadTab ==
  /\ tab_pc = "call"
  /\ \E rows \in RawTabs(tab) : all_rows_tab' = rows
  /\ tab_pc' = "loop"
  /\ UNCHANGED <<tab, tab_result, not_tab_vars>>

\* Lines 151-174: the loop of get_text_layers and its return.
GetTextLayersCall ==
  /\ tab = _TEXT_LAYER_TAB
  /\ tab_pc = "loop"
  /\ tab_result' = <<get_text_layers(all_rows_tab, default_font_file_path)>>
  /\ tab_pc' = "done"
  /\ UNCHANGED <<tab, all_rows_tab, not_tab_vars>>

\* Lines 191-212: the loop of get_image_layers and its return.
GetImageLayersCall ==
  /\ tab = _IMAGE_LAYER_TAB
  /\ tab_pc = "loop"
  /\ tab_result' = <<get_image_layers(all_rows_tab, image_directory_path)>>
  /\ tab_pc' = "done"
  /\ UNCHANGED <<tab, all_rows_tab, not_tab_vars>>

\* Lines 227-244: the loop of get_canvases and its return.
GetCanvasesCall ==
  /\ tab = _CANVAS_TAB
  /\ tab_pc = "loop"
  /\ tab_result' = <<get_canvases(all_rows_tab)>>
  /\ tab_pc' = "done"
  /\ UNCHANGED <<tab, all_rows_tab, not_tab_vars>>

NextTables ==
  \/ ReadTab
  \/ GetTextLayersCall
  \/ GetImageLayersCall
  \/ GetCanvasesCall

SpecTables == InitTables /\ [][NextTables]_vars

\* ---- vocabulary ---------------------------------------------------------
\* The row starts with the header label of tab t.
IsTabHeader(t, row) ==
  /\ Len(row) > 0
  /\ row[1] = (IF t = _CANVAS_TAB THEN <<"c", "a", "n", "v", "a", "s", "_", "i", "d">>
               ELSE <<"l", "a", "y", "e", "r", "_", "i", "d">>)

\* The message of the error a getter raises for a row.
TabRowMsg(t) ==
  IF t = _TEXT_LAYER_TAB
  THEN "Failed to create text layer object from row %d in the TEXT_LAYER tab"
  ELSE IF t = _IMAGE_LAYER_TAB
  THEN "Failed to create image layer object from row %d in the IMAGE_LAYER tab"
  ELSE "Failed to create canvas object from row %d in the CANVAS tab"

\* The class of the entities of tab t.
TabClass(t) ==
  IF t = _TEXT_LAYER_TAB THEN "TextLayer"
  ELSE IF t = _IMAGE_LAYER_TAB THEN "ImageLayer"
  ELSE "Canvas"

\* The numeric columns of tab t (0-based) and its number of columns.
NumericColumns(t) ==
  IF t = _TEXT_LAYER_TAB THEN {1, 2, 3, 4, 5, 6}
  ELSE IF t = _IMAGE_LAYER_TAB THEN {1, 2, 3, 4}
  ELSE {1, 2}
ColumnCount(t) ==
  IF t = _TEXT_LAYER_TAB THEN 8 ELSE IF t = _IMAGE_LAYER_TAB THEN 6 ELSE 3

\* A cell is missing from the row, a row without cells included.
MissingCell(t, row) == Len(row) < ColumnCount(t)

\* A numeric cell of a complete row does not hold an integer.
NonIntegerCell(t, row) ==
  /\ ~MissingCell(t, row)
  /\ \E c \in NumericColumns(t) : ~PyInt(row[c + 1]).ok

\* The constructor rejects the values of a complete row.
Rejected(t, row) ==
  /\ ~MissingCell(t, row)
  /\ ~NonIntegerCell(t, row)
  /\ IF t = _TEXT_LAYER_TAB
     THEN \/ row[1] = <<>> \/ row[8] = <<>>
          \/ \E c \in {5, 6} : PyInt(row[c + 1]).value < 0
          \/ \E c \in {2, 3, 4} : PyInt(row[c + 1]).value \notin 0..255
     ELSE IF t = _IMAGE_LAYER_TAB
     THEN \/ row[1] = <<>>
          \/ \E c \in {1, 2, 3, 4} : PyInt(row[c + 1]).value < 0
     ELSE \/ row[1] = <<>>
          \/ \E c \in {1, 2} : PyInt(row[c + 1]).value < 0

\* A non-header row from which no entity can be made.
BadRow(t, row) ==
  /\ ~IsTabHeader(t, row)
  /\ MissingCell(t, row) \/ NonIntegerCell(t, row) \/ Rejected(t, row)

\* The non-header rows, by position in the raw rows.
NonHeaderPositions(t, rows) ==
  {i \in 1..Len(rows) : ~IsTabHeader(t, rows[i])}

\* The position of the k-th non-header row.
NonHeaderPosition(t, rows, k) ==
  CHOOSE i \in NonHeaderPositions(t, rows) :
    Cardinality({j \in NonHeaderPositions(t, rows) : j <= i}) = k

\* C11: once a getter is over, if the raw rows hold a non-header row with a
\* missing cell (a row without cells included), a non-integer numeric cell
\* or values the constructor rejects, the getter raised one ValueError that
\* names the tab and the 1-based position of the first such row, and
\* returned no entity.
C11_BadRowRaisesRowError ==
  tab_pc = "done" =>
    \A i \in 1..Len(all_rows_tab) :
      ( /\ BadRow(tab, all_rows_tab[i])
        /\ \A j \in 1..(i - 1) : ~BadRow(tab, all_rows_tab[j]) )
      => /\ ~tab_result[1].ok
         /\ tab_result[1].error.type = "ValueError"
         /\ tab_result[1].error.msg = TabRowMsg(tab)
         /\ tab_result[1].error.args = <<i>>

\* C12: once a getter is over, if it returned, the list holds one entity
\* per row whose first cell is not the header label, in row order, each
\* with the id of its row, wherever the header rows are; and a tab without
\* rows or with header rows only gave the empty list and no error.
C12_HeaderRowsSkipped ==
  tab_pc = "done" =>
    LET r == tab_result[1]
        kept == NonHeaderPositions(tab, all_rows_tab)
    IN  /\ r.ok =>
             /\ Len(r.value) = Cardinality(kept)
             /\ \A k \in 1..Len(r.value) :
                  LET row == all_rows_tab[NonHeaderPosition(tab, all_rows_tab, k)]
                  IN  /\ r.value[k].class = TabClass(tab)
                      /\ (IF tab = _CANVAS_TAB THEN r.value[k].canvas_id
                          ELSE r.value[k].layer_id) = row[1]
        /\ kept = {} => r.ok /\ r.value = <<>>
        /\ (kept # {} /\ \A i \in kept : ~BadRow(tab, all_rows_tab[i])) => r.ok

\* C12 witness: get_image_layers read a data row, a header row and another
\* data row, and returned the two image layers a and b in that order.
C12_Witness ==
  /\ tab = _IMAGE_LAYER_TAB
  /\ tab_pc = "done"
  /\ Len(all_rows_tab) = 3
  /\ IsTabHeader(tab, all_rows_tab[2])
  /\ tab_result[1].ok
  /\ Len(tab_result[1].value) = 2
  /\ tab_result[1].value[1].layer_id = <<"a">>
  /\ tab_result[1].value[2].layer_id = <<"b">>

\* ------------------------------------------------------------------------
\* The entity constructors called on their own
\* ------------------------------------------------------------------------
\* Argument values: an empty and a non-empty str; integers below, at and
\* above zero; colour values around both ends of 0..255; font sizes.
StrArgs == {<<>>, <<"a">>}
IntArgs == {-1, 0, 7}
ColorArgs == {-1, 0, 1, 127, 254, 255, 256}
FontSizeArgs == {0, 12}

\* Lists of layers and canvases a Layout can be given.
LayersArgs ==
  { <<>>,
    <<ImageLayer(<<"a">>, 0, 0, 7, 7, <<"a">>).value>>,
    <<ImageLayer(<<"a">>, 0, 0, 7, 7, <<"a">>).value,
      TextLayer(<<"b">>, 0, 0, 12, <<"a">>, 0, 0, 0, <<"a">>).value>> }
CanvasArgs == {None, Canvas(<<"c">>, 7, 7).value}

\* No loader call is running; a constructor is about to be called.
InitEntities ==
  /\ image_directory_path \in ImageDirectoryPaths
  /\ default_font_file_path \in FontFilePaths
  /\ NoGetLayoutsCall
  /\ NoTabCall
  /\ NoEntityCall
  /\ NoRenderCall
  /\ NoInitCall
  /\ NoSecondCall

\* base_layer.BaseLayer(layer_id, position_x, position_y)
NewBaseLayer ==
  /\ pc = "idle" /\ tab_pc = "idle" /\ built = <<>>
  /\ \E layer_id \in StrArgs, position_x \in IntArgs, position_y \in IntArgs :
       built' = << [class |-> "BaseLayer",
                    args |-> [layer_id |-> layer_id, position_x |-> position_x,
                              position_y |-> position_y],
                    result |-> BaseLayer(layer_id, position_x, position_y)] >>
  /\ UNCHANGED not_entity_vars

\* image_layer.ImageLayer(layer_id, position_x, position_y, width, height,
\* file_path)
NewImageLayer ==
  /\ pc = "idle" /\ tab_pc = "idle" /\ built = <<>>
  /\ \E layer_id \in StrArgs, position_x \in IntArgs, position_y \in IntArgs,
        width \in IntArgs, height \in IntArgs, file_path \in StrArgs :
       built' = << [class |-> "ImageLayer",
                    args |-> [layer_id |-> layer_id, position_x |-> position_x,
                              position_y |-> position_y, width |-> width,
                              height |-> height, file_path |-> file_path],
                    result |-> ImageLayer(layer_id, position_x, position_y,
                                          width, height, file_path)] >>
  /\ UNCHANGED not_entity_vars

\* text_layer.TextLayer(layer_id, position_x, position_y, font_size,
\* font_file_path, color_r, color_g, color_b, text_content)
NewTextLayer ==
  /\ pc = "idle" /\ tab_pc = "idle" /\ built = <<>>
  /\ \E layer_id \in StrArgs, position_x \in IntArgs, position_y \in IntArgs,
        font_size \in FontSizeArgs, font_file_path \in StrArgs,
        color_r \in ColorArgs, color_g \in ColorArgs, color_b \in ColorArgs,
        text_content \in StrArgs :
       built' = << [class |-> "TextLayer",
                    args |-> [layer_id |-> layer_id, position_x |-> position_x,
                              position_y |-> position_y,
                              font_size |-> font_size,
                              font_file_path |-> font_file_path,
                              color_r |-> color_r, color_g |-> color_g,
                              color_b |-> color_b,
                              text_content |-> text_content],
                    result |-> TextLayer(layer_id, position_x, position_y,
                                         font_size, font_file_path, color_r,
                                         color_g, color_b, text_content)] >>
  /\ UNCHANGED not_entity_vars

\* layout.Layout(canvas, output_filename, layers)
NewLayout ==
  /\ pc = "idle" /\ tab_pc = "idle" /\ built = <<>>
  /\ \E canvas \in CanvasArgs, output_filename \in StrArgs,
        layers \in LayersArgs :
       built' = << [class |-> "Layout",
                    args |-> [canvas |-> canvas,
                              output_filename |-> output_filename,
                              layers |-> layers],
                    result |-> Layout(canvas, output_filename, layers)] >>
  /\ UNCHANGED not_entity_vars

NextEntities ==
  \/ NewBaseLayer
  \/ NewImageLayer
  \/ NewTextLayer
  \/ NewLayout

SpecEntities == InitEntities /\ [][NextEntities]_vars

\* ---- vocabulary ---------------------------------------------------------
\* A constructor of class c has run.
Built(c) == built # <<>> /\ built[1].class = c

\* The constructor raised ValueError: there is no entity.
RaisedValueError(r) == ~r.ok /\ r.error.type = "ValueError"

\* The constructor returned the entity holding exactly its arguments.
Constructed(b) ==
  /\ b.result.ok
  /\ b.result.value.class = b.class
  /\ \A f \in DOMAIN b.args : b.result.value[f] = b.args[f]

\* The fields every layer has are valid.
ValidBaseFields(a) ==
  a.layer_id # <<>> /\ a.position_x >= 0 /\ a.position_y >= 0

ValidImageFields(a) ==
  ValidBaseFields(a) /\ a.file_path # <<>> /\ a.width >= 0 /\ a.height >= 0

ColorsInRange(a) ==
  a.color_r \in 0..255 /\ a.color_g \in 0..255 /\ a.color_b \in 0..255

ValidTextFieldsButColors(a) ==
  ValidBaseFields(a) /\ a.font_file_path # <<>> /\ a.text_content # <<>>

\* C13: a TextLayer construction with color_r, color_g or color_b below 0
\* or above 255 raises ValueError; with all other fields valid it succeeds
\* for every combination of colour values in 0..255, 0 and 255 included.
C13_ColorRange ==
  Built("TextLayer") =>
    LET b == built[1] IN
      /\ ~ColorsInRange(b.args) => RaisedValueError(b.result)
      /\ (ValidTextFieldsButColors(b.args) /\ ColorsInRange(b.args))
         => Constructed(b)

\* C13 witness: a TextLayer was constructed with the colour values 0, 255
\* and 0.
C13_Witness ==
  /\ Built("TextLayer")
  /\ built[1].args.color_r = 0
  /\ built[1].args.color_g = 255
  /\ built[1].args.color_b = 0
  /\ built[1].result.ok

\* C14: the construction of a BaseLayer, ImageLayer or TextLayer raises
\* ValueError if layer_id is empty or a position is negative; of an
\* ImageLayer also if file_path is empty or width or height is negative; of
\* a TextLayer also if font_file_path or text_content is empty. An entity
\* exists only with valid fields, and values of 0 for positions and sizes
\* are accepted.
C14_NoInvalidLayer ==
  /\ Built("BaseLayer") =>
       LET b == built[1] IN
         IF ValidBaseFields(b.args) THEN Constructed(b)
         ELSE RaisedValueError(b.result)
  /\ Built("ImageLayer") =>
       LET b == built[1] IN
         IF ValidImageFields(b.args) THEN Constructed(b)
         ELSE RaisedValueError(b.result)
  /\ Built("TextLayer") =>
       LET b == built[1] IN
         /\ ~ValidTextFieldsButColors(b.args) => RaisedValueError(b.result)
         /\ b.result.ok => ValidTextFieldsButColors(b.args)

\* C14 witness: an ImageLayer was constructed at position (0, 0) with
\* width 0 and height 0.
C14_Witness ==
  /\ Built("ImageLayer")
  /\ built[1].args.position_x = 0 /\ built[1].args.position_y = 0
  /\ built[1].args.width = 0 /\ built[1].args.height = 0
  /\ built[1].result.ok

\* ------------------------------------------------------------------------
\* Layout constructed on its own, or by get_layouts
\* ------------------------------------------------------------------------
InitLayout == Init \/ InitEntities

NextLayout == Next \/ NewLayout

SpecLayout == InitLayout /\ [][NextLayout]_vars

\* C15: the construction of a Layout with an empty output_filename or an
\* empty list of layers raises ValueError; every Layout that get_layouts
\* builds or returns has a non-empty output name, a canvas and at least one
\* layer.
C15_LayoutNeverEmpty ==
  /\ Built("Layout") =>
       LET b == built[1] IN
         /\ (b.args.output_filename = <<>> \/ b.args.layers = <<>>)
            => RaisedValueError(b.result)
         /\ b.result.ok
            => /\ Constructed(b)
               /\ b.args.output_filename # <<>>
               /\ b.args.layers # <<>>
  /\ \A k \in 1..Len(layouts) :
       /\ layouts[k].class = "Layout"
       /\ layouts[k].output_filename # <<>>
       /\ layouts[k].canvas.class = "Canvas"
       /\ Len(layouts[k].layers) >= 1
  /\ pc = "returned" => returned = <<layouts>>

\* C15 witness: the construction of a Layout with a canvas, an output name
\* and no layer raised ValueError.
C15_Witness ==
  /\ Built("Layout")
  /\ built[1].args.canvas # None
  /\ built[1].args.output_filename # <<>>
  /\ built[1].args.layers = <<>>
  /\ RaisedValueError(built[1].result)

\* ------------------------------------------------------------------------
\* LayerMixer
\* ------------------------------------------------------------------------
MaxAddLayersCalls == 2

_IMAGE_MODE == "RGBA"
_DEFAULT_BACKGROUND_RGBA_COLOR_WHITE == <<255, 255, 255, 0>>

FileNotFoundError(path) ==
  Error("FileNotFoundError", "No such file or directory", <<path>>)
OSError(msg, path) == Error("OSError", msg, <<path>>)

\* Image.new(mode, size, color): a raster of that size filled with color,
\* on which nothing is drawn yet. drawn lists what was put on top, bottom
\* first.
ImageNew(mode, size, color) ==
  [mode |-> mode, size |-> size, color |-> color, drawn |-> <<>>]

\* Variant of _add_image_layer: the raster grows to hold the whole layer.
_add_image_layer_GrowToFit(image, layer, fs) ==
  IF layer.file_path \notin fs.readable
  THEN Raise(FileNotFoundError(layer.file_path))
  ELSE IF layer.width < 1 \/ layer.height < 1
  THEN Raise(ValueError("height and width must be > 0", <<>>))
  ELSE LET right == layer.position_x + layer.width
           bottom == layer.position_y + layer.height
       IN Ok([image EXCEPT
            !.size = << IF right > image.size[1] THEN right ELSE image.size[1],
                        IF bottom > image.size[2] THEN bottom
                        ELSE image.size[2] >>,
            !.drawn = Append(@, [kind |-> "image",
                                 args |-> <<layer.file_path,
                                            <<layer.width, layer.height>>,
                                            <<layer.position_x,
                                              layer.position_y>> >>])])

\* _add_image_layer: Image.open fails on a file that cannot be read, resize
\* on a width or height below 1; the resized image is pasted at the layer's
\* position on a transparent raster of the size of self._image and
\* composited over self._image.
_add_image_layer(image, layer, fs) ==
  IF layer.file_path \notin fs.readable
  THEN Raise(FileNotFoundError(layer.file_path))
  ELSE IF layer.width < 1 \/ layer.height < 1
  THEN Raise(ValueError("height and width must be > 0", <<>>))
  ELSE Ok([image EXCEPT
            !.drawn = Append(@, [kind |-> "image",
                                 args |-> <<layer.file_path,
                                            <<layer.width, layer.height>>,
                                            <<layer.position_x,
                                              layer.position_y>> >>])])

\* _add_text_layer: ImageFont.truetype fails on a font file that cannot be
\* read; the text is drawn on self._image itself.
_add_text_layer(image, layer, fs) ==
  IF layer.font_file_path \notin fs.readable
  THEN Raise(OSError("cannot open resource", layer.font_file_path))
  ELSE Ok([image EXCEPT
            !.drawn = Append(@, [kind |-> "text",
                                 args |-> << <<layer.position_x,
                                               layer.position_y>>,
                                             layer.text_content,
                                             <<layer.color_r, layer.color_g,
                                               layer.color_b>>,
                                             <<layer.font_file_path,
                                               layer.font_size>> >>])])

\* The loop of add_layers from the layer at 1-based position i on: the
\* raster it leaves behind and, if a draw raised, the error.
RECURSIVE AddLayersLoop(_, _, _, _)
AddLayersLoop(image, layers, i, fs) ==
  IF i > Len(layers) THEN [image |-> image, raised |-> <<>>]
  ELSE LET layer == layers[i]
           r == IF layer.class = "ImageLayer"
                THEN _add_image_layer(image, layer, fs)
                ELSE IF layer.class = "TextLayer"
                THEN _add_text_layer(image, layer, fs)
                ELSE Ok(image)
       IN  IF r.ok THEN AddLayersLoop(r.value, layers, i + 1, fs)
           ELSE [image |-> image, raised |-> <<r.error>>]

\* Variant of add_layers: all image layers are drawn before the text
\* layers.
add_layers_ImagesFirst(image, layers, fs) ==
  AddLayersLoop(image,
                SelectSeq(layers, LAMBDA l : l.class = "ImageLayer")
                  \o SelectSeq(layers, LAMBDA l : l.class # "ImageLayer"),
                1, fs)

add_layers(image, layers, fs) == AddLayersLoop(image, layers, 1, fs)

\* save_image: the PNG file written at path, or the error of the write.
save_image(image, path, fs) ==
  IF path \in fs.unwritable
  THEN Raise(OSError("cannot write file", path))
  ELSE Ok([path |-> path, format |-> "PNG", image |-> image])

\* ---- inputs ---------------------------------------------------------------
\* The image files and the font file the layers name.
RenderFiles ==
  [a |-> PathJoin(<<"i", "m", "g">>, <<"a", ".", "p", "n", "g">>),
   b |-> PathJoin(<<"i", "m", "g">>, <<"b", ".", "p", "n", "g">>),
   font |-> <<"f", ".", "t", "t", "f">>]

\* Layers: a, an image that covers a 100 x 50 canvas; b, an image that
\* reaches beyond it; e, an image of width 0; t, a text; z, a layer that is
\* neither an image nor a text; c, an image that covers a 7 x 7 canvas.
RenderLayers ==
  [a |-> ImageLayer(<<"a">>, 0, 0, 100, 50, RenderFiles.a).value,
   b |-> ImageLayer(<<"b">>, 90, 40, 20, 20, RenderFiles.b).value,
   e |-> ImageLayer(<<"e">>, 0, 0, 0, 7, RenderFiles.a).value,
   t |-> TextLayer(<<"t">>, 3, 4, 12, RenderFiles.font, 1, 2, 3,
                   <<"h", "i">>).value,
   z |-> BaseLayer(<<"z">>, 0, 0).value,
   c |-> ImageLayer(<<"c">>, 0, 0, 7, 7, RenderFiles.b).value]

LayerLists ==
  LET l == RenderLayers IN
    { <<>>, <<l.a>>, <<l.t>>, <<l.a, l.t, l.b>>, <<l.t, l.a>>, <<l.z, l.b>>,
      <<l.e, l.t>>, <<l.c>> }

MixerSizes == {<<0, 0>>, <<7, 7>>, <<100, 50>>}

\* File systems: which of the image and font files can be read.
ReadableFiles ==
  SUBSET {RenderFiles.a, RenderFiles.b, RenderFiles.font}

\* ---- a LayerMixer used on its own ----------------------------------------
\* generate_creatives is not running.
NoCreativesCall ==
  /\ saved = <<>>
  /\ gc_pc = "idle"
  /\ gc_layouts = <<>>
  /\ gc_index = 0
  /\ gc_raised = <<>>
  /\ _output_path = <<>>
  /\ made_dirs = <<>>

InitMixer ==
  /\ image_directory_path \in ImageDirectoryPaths
  /\ default_font_file_path \in FontFilePaths
  /\ NoGetLayoutsCall
  /\ NoTabCall
  /\ NoEntityCall
  /\ NoInitCall
  /\ NoSecondCall
  /\ NoCreativesCall
  /\ _image = <<>>
  /\ mixer_pc = "none"
  /\ calls = <<>>
  /\ \E readable \in ReadableFiles :
       files = [readable |-> readable, unwritable |-> {}]

not_render_vars ==
  <<get_layouts_vars, tab_vars, entity_vars, init_vars, twice_vars>>
creatives_vars ==
  <<saved, gc_pc, gc_layouts, gc_index, gc_raised, _output_path, made_dirs>>

\* LayerMixer(size)
NewLayerMixer ==
  /\ gc_pc = "idle"
  /\ mixer_pc = "none"
  /\ \E size \in MixerSizes :
       /\ _image' = <<ImageNew(_IMAGE_MODE, size,
                               _DEFAULT_BACKGROUND_RGBA_COLOR_WHITE)>>
       /\ calls' = <<[op |-> "__init__", args |-> <<size>>, raised |-> <<>>]>>
  /\ mixer_pc' = "ready"
  /\ UNCHANGED <<files, creatives_vars, not_render_vars>>

\* layer_mixer.add_layers(layers)
AddLayers ==
  /\ gc_pc = "idle"
  /\ mixer_pc = "ready"
  /\ Len(calls) <= MaxAddLayersCalls
  /\ \E layers \in LayerLists :
       LET r == add_layers(_image[1], layers, files) IN
         /\ _image' = <<r.image>>
         /\ calls' = Append(calls, [op |-> "add_layers", args |-> <<layers>>,
                                    raised |-> r.raised])
         /\ mixer_pc' = IF r.raised = <<>> THEN "ready" ELSE "raised"
  /\ UNCHANGED <<files, creatives_vars, not_render_vars>>

NextMixer ==
  \/ NewLayerMixer
  \/ AddLayers

SpecMixer == InitMixer /\ [][NextMixer]_vars

\* ---- vocabulary ---------------------------------------------------------
RECURSIVE Flatten(_)
Flatten(seqs) ==
  IF seqs = <<>> THEN <<>> ELSE Head(seqs) \o Flatten(Tail(seqs))

IsImageLayer(layer) == layer.class = "ImageLayer"
IsTextLayer(layer) == layer.class = "TextLayer"

\* Drawing the layer raises.
DrawFails(layer) ==
  \/ /\ IsImageLayer(layer)
     /\ \/ layer.file_path \notin files.readable
        \/ layer.width < 1 \/ layer.height < 1
  \/ /\ IsTextLayer(layer)
     /\ layer.font_file_path \notin files.readable

\* The layers of a list in front of the first one whose draw raises.
BeforeFailure(layers) ==
  LET bad == {i \in 1..Len(layers) : DrawFails(layers[i])}
  IN  IF bad = {} THEN layers
      ELSE SubSeq(layers, 1, (CHOOSE i \in bad : \A j \in bad : i <= j) - 1)

\* The add_layers calls made on the current LayerMixer.
AddLayersCalls == SelectSeq(calls, LAMBDA c : c.op = "add_layers")

\* The layers handed to the current LayerMixer so far, in order, up to the
\* first whose draw raises.
LayersGiven ==
  Flatten([k \in 1..Len(AddLayersCalls) |->
             BeforeFailure(AddLayersCalls[k].args[1])])

\* The image draws and the text draws on the raster, and the layers that
\* are images or texts.
ImageDraws(image) == SelectSeq(image.drawn, LAMBDA d : d.kind = "image")
TextDraws(image) == SelectSeq(image.drawn, LAMBDA d : d.kind = "text")
Drawable(layers) ==
  SelectSeq(layers, LAMBDA l : IsImageLayer(l) \/ IsTextLayer(l))

\* The draw number k shows layer l.
DrawShows(d, l) ==
  IF IsImageLayer(l)
  THEN /\ d.kind = "image"
       /\ d.args[1] = l.file_path
       /\ d.args[2] = <<l.width, l.height>>
       /\ d.args[3] = <<l.position_x, l.position_y>>
  ELSE /\ d.kind = "text"
       /\ d.args[1] = <<l.position_x, l.position_y>>
       /\ d.args[2] = l.text_content
       /\ d.args[3] = <<l.color_r, l.color_g, l.color_b>>
       /\ d.args[4] = <<l.font_file_path, l.font_size>>

\* C16: the draws on a LayerMixer's raster are, in order, one per image or
\* text layer handed to add_layers, the image draw for an ImageLayer and
\* the text draw for a TextLayer, each on top of the earlier ones; with i
\* image layers and t text layers given there are exactly i image draws and
\* t text draws; an add_layers call raises only if one of its draws does.
C16_OneDrawPerLayerInOrder ==
  _image # <<>> =>
    LET given == Drawable(LayersGiven)
        drawn == _image[1].drawn
    IN  /\ Len(drawn) = Len(given)
        /\ \A k \in 1..Len(given) : DrawShows(drawn[k], given[k])
        /\ Len(ImageDraws(_image[1]))
             = Len(SelectSeq(LayersGiven, IsImageLayer))
        /\ Len(TextDraws(_image[1]))
             = Len(SelectSeq(LayersGiven, IsTextLayer))
        /\ \A k \in 1..Len(AddLayersCalls) :
             (AddLayersCalls[k].raised # <<>>)
               <=> \E i \in 1..Len(AddLayersCalls[k].args[1]) :
                     DrawFails(AddLayersCalls[k].args[1][i])

\* C16 witness: add_layers was given an image, a text and another image, in
\* this order, and drew the three of them: two image draws, one text draw.
C16_Witness ==
  /\ mixer_pc = "ready"
  /\ Len(AddLayersCalls) = 1
  /\ AddLayersCalls[1].args[1]
       = <<RenderLayers.a, RenderLayers.t, RenderLayers.b>>
  /\ Len(_image[1].drawn) = 3
  /\ _image[1].drawn[1].kind = "image"
  /\ _image[1].drawn[2].kind = "text"
  /\ _image[1].drawn[3].kind = "image"

\* C17: the raster of a LayerMixer is in RGBA mode, was created filled with
\* (255, 255, 255, 0), and has the (width, height) the constructor was
\* given, also after any number of add_layers calls with layers of any size
\* and position, whether they raised or not.
C17_RasterSize ==
  _image # <<>> =>
    /\ calls[1].op = "__init__"
    /\ _image[1].mode = "RGBA"
    /\ _image[1].color = <<255, 255, 255, 0>>
    /\ _image[1].size = calls[1].args[1]

\* C17 witness: a 100 x 50 LayerMixer got two add_layers calls, the image
\* at (90, 40) of size 20 x 20 that reaches beyond the raster was drawn, and
\* the raster is still 100 x 50.
C17_Witness ==
  /\ Len(AddLayersCalls) = 2
  /\ calls[1].args[1] = <<100, 50>>
  /\ \E k \in 1..Len(_image[1].drawn) :
       /\ _image[1].drawn[k].kind = "image"
       /\ _image[1].drawn[k].args[3] = <<90, 40>>
  /\ _image[1].size = <<100, 50>>

\* ------------------------------------------------------------------------
\* ImageMixMain.generate_creatives
\* ------------------------------------------------------------------------
MaxLayouts == 2

\* Layouts get_layouts can return: x, an image and a text on the 100 x 50
\* canvas c; y, an image on the 7 x 7 canvas d; x2, a text on canvas c under
\* the output name of x.
RenderLayouts ==
  [x |-> Layout(Canvas(<<"c">>, 100, 50).value, <<"x">>,
                <<RenderLayers.a, RenderLayers.t>>).value,
   y |-> Layout(Canvas(<<"d">>, 7, 7).value, <<"y">>,
                <<RenderLayers.b>>).value,
   x2 |-> Layout(Canvas(<<"c">>, 100, 50).value, <<"x">>,
                 <<RenderLayers.t>>).value]

\* What self._spreadsheet_loader.get_layouts() can do: return a list of
\* layouts, or raise.
GetLayoutsOutcomes ==
  {Ok(l) : l \in SeqsUpTo({RenderLayouts.x, RenderLayouts.y, RenderLayouts.x2},
                          MaxLayouts)}
    \cup {Raise(ValueError(EmptyLayoutTabMsg, <<>>))}

OutputPaths == {<<"o", "u", "t">>}

\* Line 85: the path a layout's creative is saved at.
output_file_path_NoDirectory(output_path, layout) == layout.output_filename

output_file_path(output_path, layout) ==
  PathJoin(output_path, layout.output_filename)

\* Paths that cannot be written.
UnwritablePaths ==
  SUBSET {output_file_path(p, l) :
            p \in OutputPaths, l \in {RenderLayouts.x, RenderLayouts.y}}

\* An ImageMixMain has been constructed and generate_creatives is called.
InitCreatives ==
  /\ image_directory_path \in ImageDirectoryPaths
  /\ default_font_file_path \in FontFilePaths
  /\ NoGetLayoutsCall
  /\ NoTabCall
  /\ NoEntityCall
  /\ NoInitCall
  /\ NoSecondCall
  /\ _image = <<>>
  /\ mixer_pc = "none"
  /\ calls = <<>>
  /\ \E readable \in ReadableFiles, unwritable \in UnwritablePaths :
       files = [readable |-> readable, unwritable |-> unwritable]
  /\ saved = <<>>
  /\ gc_pc = "get_layouts"
  /\ gc_layouts = <<>>
  /\ gc_index = 0
  /\ gc_raised = <<>>
  /\ _output_path \in OutputPaths
  /\ made_dirs = <<>>

\* Variant of RaiseFromGenerateCreatives: the layout that failed is given
\* up and the loop goes on with the next one.
RaiseFromGenerateCreatives_SkipLayout(e) ==
  /\ gc_pc' = "loop"
  /\ gc_index' = gc_index + 1
  /\ UNCHANGED gc_raised

\* An exception leaves generate_creatives: nothing catches it.
RaiseFromGenerateCreatives(e) ==
  /\ gc_pc' = "raised"
  /\ gc_raised' = <<e>>
  /\ UNCHANGED gc_index

\* Variant of GcGetLayouts: the output directory is made before the
\* layouts are asked for.
GcGetLayouts_AfterMakeDirs ==
  /\ gc_pc = "get_layouts"
  /\ made_dirs' = Append(made_dirs, _output_path)
  /\ \E r \in GetLayoutsOutcomes :
       IF r.ok
       THEN /\ gc_layouts' = r.value
            /\ gc_pc' = "loop"
            /\ UNCHANGED <<gc_raised, gc_index>>
       ELSE /\ gc_pc' = "raised"
            /\ gc_raised' = <<r.error>>
            /\ UNCHANGED <<gc_layouts, gc_index>>
  /\ UNCHANGED <<_image, mixer_pc, calls, files, saved, _output_path,
                 not_render_vars>>

\* Line 78: layouts = self._spreadsheet_loader.get_layouts()
GcGetLayouts ==
  /\ gc_pc = "get_layouts"
  /\ \E r \in GetLayoutsOutcomes :
       IF r.ok
       THEN /\ gc_layouts' = r.value
            /\ gc_pc' = "makedirs"
            /\ UNCHANGED <<gc_raised, gc_index>>
       ELSE /\ gc_pc' = "raised"
            /\ gc_raised' = <<r.error>>
            /\ UNCHANGED <<gc_layouts, gc_index>>
  /\ UNCHANGED <<_image, mixer_pc, calls, files, saved, _output_path,
                 made_dirs, not_render_vars>>

\* Line 79: os.makedirs(self._output_path, exist_ok=True)
GcMakeDirs ==
  /\ gc_pc = "makedirs"
  /\ made_dirs' = Append(made_dirs, _output_path)
  /\ gc_pc' = "loop"
  /\ UNCHANGED <<_image, mixer_pc, calls, files, saved, gc_layouts, gc_index,
                 gc_raised, _output_path, not_render_vars>>

\* Lines 81-83: the next layout gets a LayerMixer of the size of its canvas.
GcNewLayerMixer ==
  /\ gc_pc = "loop"
  /\ gc_index < Len(gc_layouts)
  /\ LET layout == gc_layouts[gc_index + 1]
         size == <<layout.canvas.width, layout.canvas.height>>
     IN  /\ _image' = <<ImageNew(_IMAGE_MODE, size,
                                 _DEFAULT_BACKGROUND_RGBA_COLOR_WHITE)>>
         /\ calls' = Append(calls, [op |-> "__init__", args |-> <<size>>,
                                    raised |-> <<>>])
  /\ mixer_pc' = "ready"
  /\ gc_pc' = "add_layers"
  /\ UNCHANGED <<files, saved, gc_layouts, gc_index, gc_raised, _output_path,
                 made_dirs, not_render_vars>>

\* Line 84: layer_mixer.add_layers(layout.layers)
GcAddLayers ==
  /\ gc_pc = "add_layers"
  /\ LET layout == gc_layouts[gc_index + 1]
         r == add_layers(_image[1], layout.layers, files)
     IN  /\ _image' = <<r.image>>
         /\ calls' = Append(calls, [op |-> "add_layers",
                                    args |-> <<layout.layers>>,
                                    raised |-> r.raised])
         /\ IF r.raised = <<>>
            THEN /\ gc_pc' = "save_image"
                 /\ UNCHANGED <<mixer_pc, gc_index, gc_raised>>
            ELSE /\ mixer_pc' = "raised"
                 /\ RaiseFromGenerateCreatives(r.raised[1])
  /\ UNCHANGED <<files, saved, gc_layouts, _output_path, made_dirs,
                 not_render_vars>>

\* Variant of GcSaveImage: a path that was saved at is not saved at again.
GcSaveImage_KeepsExisting ==
  /\ gc_pc = "save_image"
  /\ LET layout == gc_layouts[gc_index + 1]
         path == output_file_path(_output_path, layout)
         r == save_image(_image[1], path, files)
         exists == \E k \in 1..Len(saved) : saved[k].path = path
     IN  /\ calls' = Append(calls, [op |-> "save_image", args |-> <<path>>,
                                    raised |-> IF r.ok THEN <<>>
                                               ELSE <<r.error>>])
         /\ IF r.ok
            THEN /\ saved' = IF exists THEN saved ELSE Append(saved, r.value)
                 /\ gc_index' = gc_index + 1
                 /\ gc_pc' = "loop"
                 /\ UNCHANGED <<mixer_pc, gc_raised>>
            ELSE /\ mixer_pc' = "raised"
                 /\ RaiseFromGenerateCreatives(r.error)
                 /\ UNCHANGED saved
  /\ UNCHANGED <<_image, files, gc_layouts, _output_path, made_dirs,
                 not_render_vars>>

\* Lines 85-86: the creative is saved under the layout's output name.
GcSaveImage ==
  /\ gc_pc = "save_image"
  /\ LET layout == gc_layouts[gc_index + 1]
         path == output_file_path(_output_path, layout)
         r == save_image(_image[1], path, files)
     IN  /\ calls' = Append(calls, [op |-> "save_image", args |-> <<path>>,
                                    raised |-> IF r.ok THEN <<>>
                                               ELSE <<r.error>>])
         /\ IF r.ok
            THEN /\ saved' = Append(saved, r.value)
                 /\ gc_index' = gc_index + 1
                 /\ gc_pc' = "loop"
                 /\ UNCHANGED <<mixer_pc, gc_raised>>
            ELSE /\ mixer_pc' = "raised"
                 /\ RaiseFromGenerateCreatives(r.error)
                 /\ UNCHANGED saved
  /\ UNCHANGED <<_image, files, gc_layouts, _output_path, made_dirs,
                 not_render_vars>>

\* The loop is over: generate_creatives returns.
GcReturn ==
  /\ gc_pc = "loop"
  /\ gc_index = Len(gc_layouts)
  /\ gc_pc' = "returned"
  /\ UNCHANGED <<_image, mixer_pc, calls, files, saved, gc_layouts, gc_index,
                 gc_raised, _output_path, made_dirs, not_render_vars>>

NextCreatives ==
  \/ GcGetLayouts
  \/ GcMakeDirs
  \/ GcNewLayerMixer
  \/ GcAddLayers
  \/ GcSaveImage
  \/ GcReturn

SpecCreatives == InitCreatives /\ [][NextCreatives]_vars

\* ---- vocabulary ---------------------------------------------------------
\* The three calls generate_creatives makes for a layout, in order.
CallsFor(layout) ==
  << [op |-> "__init__",
      args |-> << <<layout.canvas.width, layout.canvas.height>> >>],
     [op |-> "add_layers", args |-> <<layout.layers>>],
     [op |-> "save_image",
      args |-> <<_output_path \o <<"/">> \o layout.output_filename>>] >>

\* The calls for all layouts, in layout order.
CallsForAll == Flatten([k \in 1..Len(gc_layouts) |-> CallsFor(gc_layouts[k])])

\* The calls made are the first calls of CallsForAll, in order.
CallsInOrder ==
  /\ Len(calls) <= Len(CallsForAll)
  /\ \A j \in 1..Len(calls) :
       /\ calls[j].op = CallsForAll[j].op
       /\ calls[j].args = CallsForAll[j].args

\* The file saved for the k-th layout: at the layout's path, showing the
\* layers of that layout only, on a raster of the size of its canvas.
SavedFor(k) ==
  LET layout == gc_layouts[k] IN
    /\ saved[k].path = _output_path \o <<"/">> \o layout.output_filename
    /\ saved[k].image.size = <<layout.canvas.width, layout.canvas.height>>
    /\ Len(saved[k].image.drawn) = Len(Drawable(layout.layers))
    /\ \A i \in 1..Len(layout.layers) :
         DrawShows(saved[k].image.drawn[i], layout.layers[i])

\* C18: when generate_creatives returns for n layouts, it has made, for
\* each layout in order, a LayerMixer of the size of the layout's canvas,
\* one add_layers call and then one save_image call with the path
\* output_path/output_filename, and nothing else: n files are saved, each
\* showing its own layout only; with no layout, no call is made and nothing
\* is saved. Until then the calls made are the first of these, in order.
C18_OneSavePerLayout ==
  gc_pc \notin {"idle", "get_layouts"} =>
    /\ CallsInOrder
    /\ Len(saved) = Len(SelectSeq(calls, LAMBDA c : c.op = "save_image"
                                                    /\ c.raised = <<>>))
    /\ \A k \in 1..Len(saved) : SavedFor(k)
    /\ gc_pc = "returned" =>
         /\ Len(calls) = 3 * Len(gc_layouts)
         /\ \A j \in 1..Len(calls) : calls[j].raised = <<>>
         /\ Len(saved) = Len(gc_layouts)
         /\ gc_raised = <<>>

\* C18 witness: generate_creatives returned for the two layouts x and y and
\* saved out/x, then out/y.
C18_Witness ==
  /\ gc_pc = "returned"
  /\ gc_layouts = <<RenderLayouts.x, RenderLayouts.y>>
  /\ Len(saved) = 2
  /\ saved[1].path = <<"o", "u", "t", "/", "x">>
  /\ saved[2].path = <<"o", "u", "t", "/", "y">>

\* C19: when add_layers or save_image raises for the k-th layout,
\* generate_creatives raises that very error, the failing call is the last
\* call made and was made once, the layouts before k are saved and no
\* other, and no call is made for a later layout.
C19_FailureAbortsBatch ==
  /\ \A j \in 1..Len(calls) :
       calls[j].raised # <<>>
         => /\ j = Len(calls)
            /\ gc_pc = "raised"
            /\ gc_raised = calls[j].raised
  /\ (gc_pc = "raised" /\ made_dirs # <<>>) =>
       LET k == gc_index + 1 IN
         /\ k \in 1..Len(gc_layouts)
         /\ calls # <<>>
         /\ calls[Len(calls)].raised = gc_raised
         /\ calls[Len(calls)].op \in {"add_layers", "save_image"}
         /\ Len(calls) = 3 * (k - 1)
                           + (IF calls[Len(calls)].op = "add_layers"
                              THEN 2 ELSE 3)
         /\ CallsInOrder
         /\ Len(saved) = k - 1
         /\ \A j \in 1..(k - 1) : SavedFor(j)

\* C19 witness: add_layers raised FileNotFoundError for the second of two
\* layouts; the first layout is saved, the second is not.
C19_Witness ==
  /\ gc_pc = "raised"
  /\ Len(gc_layouts) = 2
  /\ gc_index = 1
  /\ calls[Len(calls)].op = "add_layers"
  /\ gc_raised[1].type = "FileNotFoundError"
  /\ Len(saved) = 1

\* ------------------------------------------------------------------------
\* The constructors of SpreadSheetLoader and ImageMixMain
\* ------------------------------------------------------------------------
\* Spreadsheet urls: one that names a spreadsheet and one that names none.
SpreadsheetUrls == [found |-> <<"u", "1">>, unknown |-> <<"u", "2">>]

\* Values of a str argument that is empty or not.
EmptyOr(values) == {<<>>} \cup values

\* The positional arguments of SpreadSheetLoader(...) and, with output_path
\* as the fourth, of ImageMixMain(...).
LoaderArguments ==
  {<<u, d, f>> : u \in EmptyOr({SpreadsheetUrls.found, SpreadsheetUrls.unknown}),
                 d \in EmptyOr(ImageDirectoryPaths),
                 f \in EmptyOr(FontFilePaths)}
MainArguments == {a \o <<o>> : a \in LoaderArguments, o \in EmptyOr(OutputPaths)}

\* Variant of the argument checks: default_font_file_path is not checked.
SpreadSheetLoader_checks_NoFontCheck(spreadsheet_url, directory, font) ==
  IF IsEmpty(spreadsheet_url)
  THEN Raise(ValueError("spreadsheet_url cannot be empty", <<>>))
  ELSE IF IsEmpty(directory)
  THEN Raise(ValueError("image_directory_path cannot be empty", <<>>))
  ELSE Ok(<<spreadsheet_url, directory, font>>)

\* The argument checks at the head of SpreadSheetLoader.__init__.
SpreadSheetLoader_checks(spreadsheet_url, directory, font) ==
  IF IsEmpty(spreadsheet_url)
  THEN Raise(ValueError("spreadsheet_url cannot be empty", <<>>))
  ELSE IF IsEmpty(directory)
  THEN Raise(ValueError("image_directory_path cannot be empty", <<>>))
  ELSE IF IsEmpty(font)
  THEN Raise(ValueError("default_font_file_path cannot be empty", <<>>))
  ELSE Ok(<<spreadsheet_url, directory, font>>)

\* The calls _authorize_spreasheet_access makes, in order.
AuthorizationCalls ==
  <<"colab_auth.authenticate_user", "default_auth.default",
    "gspread.authorize">>

\* What none of the constructors assigns.
not_init_fields ==
  <<pc, all_rows_layout, all_rows_text_layer, all_rows_image_layer,
    all_rows_canvas, text_layers, image_layers, canvases, index, layouts,
    raised, returned, tab_vars, entity_vars, _image, mixer_pc, calls, files,
    saved, gc_pc, gc_layouts, gc_index, gc_raised, made_dirs, twice_vars>>
loader_fields == <<image_directory_path, default_font_file_path>>

\* One of the two constructors is called; no field is assigned yet.
InitConstructors ==
  /\ image_directory_path = <<>>
  /\ default_font_file_path = <<>>
  /\ NoGetLayoutsCall
  /\ NoTabCall
  /\ NoEntityCall
  /\ NoRenderCall
  /\ NoSecondCall
  /\ \/ /\ init_pc = "main"
        /\ \E a \in MainArguments :
             init_args = [class |-> "ImageMixMain", args |-> a]
     \/ /\ init_pc = "loader"
        /\ \E a \in LoaderArguments :
             init_args = [class |-> "SpreadSheetLoader", args |-> a]
  /\ init_calls = <<>>
  /\ init_raised = <<>>

\* The arguments the SpreadSheetLoader constructor receives.
LoaderArgs == SubSeq(init_args.args, 1, 3)

RaiseFromInit(e) ==
  /\ init_pc' = "raised"
  /\ init_raised' = <<e>>

\* ImageMixMain.__init__ up to the construction of the loader.
MainInit ==
  /\ init_pc = "main"
  /\ LET output_path == init_args.args[4] IN
       IF IsEmpty(output_path)
       THEN /\ RaiseFromInit(ValueError("output_path cannot be empty", <<>>))
            /\ UNCHANGED <<_output_path, init_calls>>
       ELSE /\ _output_path' = output_path
            /\ init_calls' =
                 Append(init_calls,
                        [op |-> "SpreadSheetLoader", args |-> LoaderArgs])
            /\ init_pc' = "loader"
            /\ UNCHANGED init_raised
  /\ UNCHANGED <<init_args, loader_fields, not_init_fields>>

\* SpreadSheetLoader.__init__: the argument checks and the fields.
LoaderCheckArgs ==
  /\ init_pc = "loader"
  /\ LET r == SpreadSheetLoader_checks(LoaderArgs[1], LoaderArgs[2],
                                       LoaderArgs[3]) IN
       IF r.ok
       THEN /\ image_directory_path' = r.value[2]
            /\ default_font_file_path' = r.value[3]
            /\ init_pc' = "authorize"
            /\ UNCHANGED init_raised
       ELSE /\ RaiseFromInit(r.error)
            /\ UNCHANGED loader_fields
  /\ UNCHANGED <<init_args, init_calls, _output_path, not_init_fields>>

\* self._gspread = self._authorize_spreasheet_access(): each of its three
\* calls returns or raises; n of them return.
AuthorizeSpreadsheetAccess ==
  /\ init_pc = "authorize"
  /\ \E n \in 0..Len(AuthorizationCalls) :
       LET made == IF n < Len(AuthorizationCalls) THEN n + 1 ELSE n IN
         /\ init_calls' =
              init_calls \o [i \in 1..made |->
                               [op |-> AuthorizationCalls[i], args |-> <<>>]]
         /\ IF n < Len(AuthorizationCalls)
            THEN RaiseFromInit(Error("AuthorizationError",
                                     AuthorizationCalls[made], <<>>))
            ELSE /\ init_pc' = "open"
                 /\ UNCHANGED init_raised
  /\ UNCHANGED <<init_args, loader_fields, _output_path, not_init_fields>>

\* self._spreadsheet = self._gspread.open_by_url(self._spreadsheet_url):
\* SpreadsheetNotFound becomes a ValueError, any other error of the request
\* leaves the constructor as it is.
OpenByUrl ==
  /\ init_pc = "open"
  /\ init_calls' =
       Append(init_calls, [op |-> "open_by_url", args |-> <<LoaderArgs[1]>>])
  /\ IF LoaderArgs[1] = SpreadsheetUrls.found
     THEN \/ /\ init_pc' = "done"
             /\ UNCHANGED init_raised
          \/ RaiseFromInit(Error("APIError", "", <<>>))
     ELSE RaiseFromInit(
            ErrorFrom("ValueError", "The spreadsheet url is invalid.",
                      <<LoaderArgs[1]>>,
                      Error("SpreadsheetNotFound", "", <<>>)))
  /\ UNCHANGED <<init_args, loader_fields, _output_path, not_init_fields>>

NextConstructors ==
  \/ MainInit
  \/ LoaderCheckArgs
  \/ AuthorizeSpreadsheetAccess
  \/ OpenByUrl

SpecConstructors == InitConstructors /\ [][NextConstructors]_vars

\* ---- vocabulary of the claim on the constructors ----
\* A constructor of this specification is running or has ended.
ConstructorCalled == init_pc # "idle"
ConstructorEnded == init_pc \in {"raised", "done"}
OfMain == ConstructorCalled /\ init_args.class = "ImageMixMain"
EmptyOutputPath == OfMain /\ IsEmpty(init_args.args[4])
EmptyLoaderArgument ==
  ConstructorCalled /\ \E i \in 1..3 : IsEmpty(init_args.args[i])
\* The calls that authenticate or reach the spreadsheet.
IsAccess(c) ==
  \/ c.op = "open_by_url"
  \/ \E i \in 1..Len(AuthorizationCalls) : c.op = AuthorizationCalls[i]
NoAccess == \A i \in 1..Len(init_calls) : ~IsAccess(init_calls[i])
RaisedOwnValueError ==
  /\ init_pc = "raised"
  /\ init_raised[1].type = "ValueError"
  /\ init_raised[1].cause = <<>>

\* C20: with an empty spreadsheet_url, image_directory_path or
\* default_font_file_path the constructor of SpreadSheetLoader ends with a
\* ValueError and at no moment authenticates or opens the spreadsheet; with
\* an empty output_path the constructor of ImageMixMain ends with a
\* ValueError without constructing the loader; with a non-empty output_path
\* and an empty loader argument it ends with the loader's ValueError.
C20_EmptyArgumentsRejectedFirst ==
  /\ EmptyLoaderArgument \/ EmptyOutputPath => NoAccess
  /\ EmptyOutputPath => init_calls = <<>> /\ init_pc \in {"main", "raised"}
  /\ ConstructorEnded /\ (EmptyLoaderArgument \/ EmptyOutputPath)
       => RaisedOwnValueError
  /\ ConstructorEnded /\ EmptyOutputPath
       => init_raised[1].msg = "output_path cannot be empty"
  /\ ConstructorEnded /\ ~EmptyOutputPath /\ EmptyLoaderArgument
       => init_raised[1] =
            SpreadSheetLoader_checks(init_args.args[1], init_args.args[2],
                                     init_args.args[3]).error

\* ImageMixMain was called with an output_path and with every loader
\* argument but the font: it constructed the loader, which raised.
C20_Witness ==
  /\ OfMain
  /\ ~EmptyOutputPath
  /\ ~IsEmpty(init_args.args[1])
  /\ ~IsEmpty(init_args.args[2])
  /\ IsEmpty(init_args.args[3])
  /\ Len(init_calls) = 1
  /\ init_calls[1].op = "SpreadSheetLoader"
  /\ init_pc = "raised"
  /\ init_raised[1].msg = "default_font_file_path cannot be empty"

\* ------------------------------------------------------------------------
\* get_layouts called twice on one spreadsheet
\* ------------------------------------------------------------------------
\* The spreadsheet does not change between the two calls: every read of a
\* tab returns what the snapshot holds for it.
InitTwice ==
  /\ image_directory_path \in ImageDirectoryPaths
  /\ default_font_file_path \in FontFilePaths
  /\ pc = "start"
  /\ all_rows_layout = <<>>
  /\ all_rows_text_layer = <<>>
  /\ all_rows_image_layer = <<>>
  /\ all_rows_canvas = <<>>
  /\ text_layers = <<>>
  /\ image_layers = <<>>
  /\ canvases = <<>>
  /\ index = 0
  /\ layouts = <<>>
  /\ raised = <<>>
  /\ returned = <<>>
  /\ NoTabCall
  /\ NoEntityCall
  /\ NoRenderCall
  /\ NoInitCall
  /\ \E l \in LayoutTabs, t \in TextTabs, i \in ImageTabs, c \in CanvasTabs :
       snapshot = <<[layout |-> l, text |-> t, image |-> i, canvas |-> c]>>
  /\ first = <<>>

\* How a call of get_layouts ended.
Outcome == [raised |-> raised, returned |-> returned]

\* Variant of SecondCall: the list of layouts is kept from call to call.
SecondCall_KeepsLayouts ==
  /\ pc \in {"raised", "returned"}
  /\ first = <<>>
  /\ first' = <<Outcome>>
  /\ pc' = "start"
  /\ all_rows_layout' = <<>>
  /\ all_rows_text_layer' = <<>>
  /\ all_rows_image_layer' = <<>>
  /\ all_rows_canvas' = <<>>
  /\ text_layers' = <<>>
  /\ image_layers' = <<>>
  /\ canvases' = <<>>
  /\ index' = 0
  /\ raised' = <<>>
  /\ returned' = <<>>
  /\ UNCHANGED <<layouts, config, snapshot, tab_vars, entity_vars,
                 render_vars, init_vars>>

\* The first call has ended and get_layouts is called again on the same
\* loader: every local of the first call is gone, the fields of the loader
\* are as they were.
SecondCall ==
  /\ pc \in {"raised", "returned"}
  /\ first = <<>>
  /\ first' = <<Outcome>>
  /\ pc' = "start"
  /\ all_rows_layout' = <<>>
  /\ all_rows_text_layer' = <<>>
  /\ all_rows_image_layer' = <<>>
  /\ all_rows_canvas' = <<>>
  /\ text_layers' = <<>>
  /\ image_layers' = <<>>
  /\ canvases' = <<>>
  /\ index' = 0
  /\ layouts' = <<>>
  /\ raised' = <<>>
  /\ returned' = <<>>
  /\ UNCHANGED <<config, snapshot, tab_vars, entity_vars, render_vars,
                 init_vars>>

NextTwice ==
  \/ ReadLayoutTab /\ all_rows_layout' = snapshot[1].layout
  \/ ReadTextLayerTab /\ all_rows_text_layer' = snapshot[1].text
  \/ GetTextLayers
  \/ ReadImageLayerTab /\ all_rows_image_layer' = snapshot[1].image
  \/ GetImageLayers
  \/ ReadCanvasTab /\ all_rows_canvas' = snapshot[1].canvas
  \/ GetCanvases
  \/ LayoutRow
  \/ ReturnLayouts
  \/ SecondCall

SpecTwice == InitTwice /\ [][NextTwice]_vars

\* The second call has ended too.
BothCallsEnded == first # <<>> /\ pc \in {"raised", "returned"}

RECURSIVE NatStr(_)
NatStr(n) ==
  IF n < 10 THEN <<Digits[n + 1]>>
  ELSE NatStr(n \div 10) \o <<Digits[(n % 10) + 1]>>
PyStr(n) == IF n < 0 THEN <<"-">> \o NatStr(0 - n) ELSE NatStr(n)

\* The cells of tab t written back from entity e, field for field (of an
\* image layer the first five: its file_path is not a cell).
Serialize(t, e) ==
  IF t = _TEXT_LAYER_TAB
  THEN <<e.layer_id, PyStr(e.font_size), PyStr(e.color_r), PyStr(e.color_g),
         PyStr(e.color_b), PyStr(e.position_x), PyStr(e.position_y),
         e.text_content>>
  ELSE IF t = _IMAGE_LAYER_TAB
  THEN <<e.layer_id, PyStr(e.width), PyStr(e.height), PyStr(e.position_x),
         PyStr(e.position_y)>>
  ELSE <<e.canvas_id, PyStr(e.width), PyStr(e.height)>>

\* The cell is a decimal numeral as str writes it: digits only after an
\* optional minus sign, no leading zero, and no minus zero.
Canonical(s) ==
  LET body == IF Len(s) > 0 /\ s[1] = "-" THEN Tail(s) ELSE s IN
    /\ Len(body) > 0
    /\ \A i \in 1..Len(body) : IsDigit(body[i])
    /\ Len(body) > 1 => body[1] # "0"
    /\ body = <<"0">> => body = s

\* The getter returned, and its k-th entity comes from this row.
RowOfEntity(k) == all_rows_tab[NonHeaderPosition(tab, all_rows_tab, k)]
GetterReturned == tab_pc = "done" /\ tab_result[1].ok

\* C22: once a getter returned, each entity written back field for field
\* gives the cells of its row again, for every id and text cell, and for
\* every numeric cell that is a canonical decimal numeral; any other numeric
\* cell that int accepts (surrounding blanks, a plus sign, leading zeros,
\* underscores, minus zero) is written back as the numeral of the same
\* value.
C22_CanonicalCellsRoundTrip ==
  GetterReturned =>
    \A k \in 1..Len(tab_result[1].value) :
      LET row == RowOfEntity(k)
          back == Serialize(tab, tab_result[1].value[k])
      IN  \A c \in 1..Len(back) :
            IF (c - 1) \in NumericColumns(tab)
            THEN /\ Canonical(row[c]) => back[c] = row[c]
                 /\ Canonical(back[c])
                 /\ PyInt(back[c]) = PyInt(row[c])
            ELSE back[c] = row[c]

\* C22 as stated: every parsed row is written back cell for cell.
C22_EveryRowRoundTrips ==
  GetterReturned =>
    \A k \in 1..Len(tab_result[1].value) :
      LET back == Serialize(tab, tab_result[1].value[k])
      IN  back = SubSeq(RowOfEntity(k), 1, Len(back))

\* get_text_layers returned two layers: one from a row of canonical
\* numerals, one from a row whose font size cell is "09".
C22_Witness ==
  /\ GetterReturned
  /\ tab = _TEXT_LAYER_TAB
  /\ Len(tab_result[1].value) = 2
  /\ \A c \in NumericColumns(tab) : Canonical(RowOfEntity(1)[c + 1])
  /\ RowOfEntity(2)[2] = <<"0", "9">>
  /\ tab_result[1].value[2].font_size = 9

\* ------------------------------------------------------------------------
\* The pixels of the raster
\* ------------------------------------------------------------------------
\* A pixel is <<r, g, b, a>>. Each image file holds one colour all over, so
\* that its resized image holds that colour all over too: a.png is opaque,
\* b.png is half transparent.
FilePixel(path) ==
  IF path = RenderFiles.a THEN <<200, 10, 10, 255>> ELSE <<10, 10, 200, 128>>

\* x \div 255, rounded to the nearest integer.
Div255(x) == (x + 127) \div 255

\* Image.alpha_composite at one pixel: src over dst.
Over(src, dst) ==
  IF src[4] = 0 THEN dst
  ELSE LET outa255 == src[4] * 255 + dst[4] * (255 - src[4])
           mix(s, d) ==
             (s * src[4] * 255 + d * dst[4] * (255 - src[4])
                + (outa255 \div 2)) \div outa255
       IN  <<mix(src[1], dst[1]), mix(src[2], dst[2]), mix(src[3], dst[3]),
             Div255(outa255)>>

\* The pixel (x, y) is in the box the image draw d pastes to.
InBox(d, x, y) ==
  /\ d.args[3][1] <= x /\ x < d.args[3][1] + d.args[2][1]
  /\ d.args[3][2] <= y /\ y < d.args[3][2] + d.args[2][2]

\* Variant of LayerPixel: the first column of the box is not pasted.
LayerPixel_SkipsFirstColumn(d, x, y) ==
  IF InBox(d, x, y) /\ x > d.args[3][1]
  THEN FilePixel(d.args[1])
  ELSE _DEFAULT_BACKGROUND_RGBA_COLOR_WHITE

\* Variant of LayerPixel: the raster the image is pasted on is opaque.
LayerPixel_OpaqueBackground(d, x, y) ==
  IF InBox(d, x, y) THEN FilePixel(d.args[1]) ELSE <<255, 255, 255, 255>>

\* The pixel (x, y) of layer_to_add, for a pixel of the raster: the resized
\* image where it was pasted, the transparent background elsewhere. What
\* the box holds beyond the raster is no pixel of layer_to_add.
LayerPixel(d, x, y) ==
  IF InBox(d, x, y)
  THEN FilePixel(d.args[1])
  ELSE _DEFAULT_BACKGROUND_RGBA_COLOR_WHITE

\* ---- vocabulary ---------------------------------------------------------
Columns(image) == 0..(image.size[1] - 1)
Lines(image) == 0..(image.size[2] - 1)
Opaque(p) == p[4] = 255

\* The only draw on the raster is an image at (0, 0) of the raster's size.
OnlyACoveringImage(image) ==
  /\ Len(image.drawn) = 1
  /\ image.drawn[1].kind = "image"
  /\ image.drawn[1].args[3] = <<0, 0>>
  /\ image.drawn[1].args[2] = image.size

\* The pixel (x, y) of a raster on which only draw d was made.
PixelAfterOnly(image, x, y) ==
  Over(LayerPixel(image.drawn[1], x, y), image.color)

\* C23: on a raster whose only draw is an image at (0, 0) of the raster's
\* size, every pixel has the alpha of the image's pixel: it is opaque, and
\* is the image's pixel, where the image is opaque, and it lets the
\* transparent background through where the image is not.
C23_CoveringImageKeepsItsAlpha ==
  (_image # <<>> /\ OnlyACoveringImage(_image[1])) =>
    \A x \in Columns(_image[1]), y \in Lines(_image[1]) :
      LET file == FilePixel(_image[1].drawn[1].args[1])
          p == PixelAfterOnly(_image[1], x, y)
      IN  /\ p[4] = file[4]
          /\ Opaque(file) => p = file
          /\ Opaque(p) <=> Opaque(file)

\* C23 as stated: after a covering image every pixel is opaque.
C23_CoveringImageIsOpaque ==
  (_image # <<>> /\ OnlyACoveringImage(_image[1])) =>
    \A x \in Columns(_image[1]), y \in Lines(_image[1]) :
      Opaque(PixelAfterOnly(_image[1], x, y))

\* The opaque image a.png covers a 100 x 50 raster: its last pixel is
\* opaque.
C23_Witness ==
  /\ _image # <<>>
  /\ OnlyACoveringImage(_image[1])
  /\ _image[1].size = <<100, 50>>
  /\ _image[1].drawn[1].args[1] = RenderFiles.a
  /\ Opaque(PixelAfterOnly(_image[1], 99, 49))

\* Values a pixel may have before a draw: the background, an opaque and a
\* half transparent colour.
PreviousPixels ==
  {_DEFAULT_BACKGROUND_RGBA_COLOR_WHITE, <<1, 2, 3, 255>>, <<9, 8, 7, 128>>}

\* The image draws on a raster.
ImageDrawsOn(image) ==
  {d \in {image.drawn[i] : i \in 1..Len(image.drawn)} : d.kind = "image"}

\* The box of draw d reaches beyond the raster.
BeyondRaster(image, d) ==
  \/ d.args[3][1] + d.args[2][1] > image.size[1]
  \/ d.args[3][2] + d.args[2][2] > image.size[2]

\* C26: for every image draw made on a raster, a pixel of the raster
\* outside the box at the layer's position with the layer's width and
\* height keeps the value it had, whatever it was; a pixel inside the box
\* is the image's pixel over the value it had; the raster keeps its size,
\* and a box that reaches beyond the raster makes no add_layers call fail.
C26_OnlyTheBoxChanges ==
  _image # <<>> =>
    /\ \A d \in ImageDrawsOn(_image[1]) :
         \A x \in Columns(_image[1]), y \in Lines(_image[1]) :
           \A prev \in PreviousPixels :
             Over(LayerPixel(d, x, y), prev)
               = IF InBox(d, x, y) THEN Over(FilePixel(d.args[1]), prev)
                 ELSE prev
    /\ _image[1].size = calls[1].args[1]
    /\ \A k \in 1..Len(AddLayersCalls) :
         AddLayersCalls[k].raised # <<>>
           => \E i \in 1..Len(AddLayersCalls[k].args[1]) :
                DrawFails(AddLayersCalls[k].args[1][i])

\* An image of 20 x 20 was drawn at (90, 40) on a raster of 100 x 50 and
\* nothing was raised: the pixel (89, 39) keeps its value, the pixel
\* (90, 40) does not.
C26_Witness ==
  /\ mixer_pc = "ready"
  /\ _image[1].size = <<100, 50>>
  /\ \E d \in ImageDrawsOn(_image[1]) :
       /\ BeyondRaster(_image[1], d)
       /\ d.args[3] = <<90, 40>>
       /\ Over(LayerPixel(d, 89, 39), <<1, 2, 3, 255>>) = <<1, 2, 3, 255>>
       /\ Over(LayerPixel(d, 90, 40), <<1, 2, 3, 255>>) # <<1, 2, 3, 255>>

\* ------------------------------------------------------------------------
\* The row loop of get_layouts on rows with gaps and with every slot filled
\* ------------------------------------------------------------------------
MaxLoopRows == 2

\* The entities get_layouts holds when it enters its row loop: image layers
\* a, m and twice d, text layers t and m, canvas c.
LoopTables ==
  [image |-> get_image_layers(
               <<ImageHeaderRow, ImageRow(<<"a">>, <<"1", "0">>),
                 ImageRow(<<"m">>, <<"1", "0">>),
                 ImageRow(<<"d">>, <<"1", "0">>),
                 ImageRow(<<"d">>, <<"2", "0">>)>>, <<"i", "m", "g">>).value,
   text |-> get_text_layers(
              <<TextHeaderRow, TextRow(<<"t">>, <<"1", "2">>),
                TextRow(<<"m">>, <<"1", "2">>)>>, <<"f", ".", "t", "t", "f">>).value,
   canvas |-> get_canvases(
                <<CanvasHeaderRow, CanvasRow(<<"c">>, <<"1", "0", "0">>)>>).value]

\* Rows of the LAYOUT tab: header rows, one of them a cell short and one
\* without a third cell; rows with an id behind an empty layer cell that
\* matches nothing (q), an image and a text layer (m) or two image layers
\* (d); rows with these ids in front of the gap; rows with all 30 layer
\* cells filled.
LoopRowChoices ==
  LET n == _NUMBER_OF_COLUMNS_IN_LAYOUT_TAB
      header == <<_LAYOUT_HEADER_FIRST_COLUMN_, _CANVAS_ID_COLUMN_HEADER>>
  IN  { LayoutHeaderRow,
        PadRow(header \o << <<"l", "1">> >>, n - 1),
        PadRow(header, n),
        PadRow(<< <<"x">>, <<"c">>, <<"a">>, <<"t">> >>, n),
        PadRow(<< <<"x">>, <<"c">>, <<"a">>, <<>>, <<"q">> >>, n),
        PadRow(<< <<"y">>, <<"c">>, <<"t">>, <<>>, <<"m">> >>, n),
        PadRow(<< <<"y">>, <<"c">>, <<"a">>, <<>>, <<>>, <<"d">>, <<"d">> >>, n),
        PadRow(<< <<"x">>, <<"c">>, <<"a">>, <<"m">> >>, n),
        PadRow(<< <<"x">>, <<"c">>, <<"q">> >>, n),
        [i \in 1..n |-> IF i = 1 THEN <<"x">> ELSE IF i = 2 THEN <<"c">>
                        ELSE <<"a">>],
        [i \in 1..n |-> IF i = 1 THEN <<"y">> ELSE IF i = 2 THEN <<"c">>
                        ELSE IF i = n THEN <<"q">> ELSE <<"t">>] }

\* get_layouts has read a LAYOUT tab of two rows or more, has parsed the
\* three other tabs and enters its row loop.
InitLoop ==
  /\ image_directory_path \in ImageDirectoryPaths
  /\ default_font_file_path \in FontFilePaths
  /\ pc = "layout_rows"
  /\ all_rows_layout \in SeqsUpTo(LoopRowChoices, MaxLoopRows)
  /\ ~LayoutTabIsEmpty(all_rows_layout)
  /\ all_rows_text_layer = <<>>
  /\ all_rows_image_layer = <<>>
  /\ all_rows_canvas = <<>>
  /\ text_layers = LoopTables.text
  /\ image_layers = LoopTables.image
  /\ canvases = LoopTables.canvas
  /\ index = 0
  /\ layouts = <<>>
  /\ raised = <<>>
  /\ returned = <<>>
  /\ NoTabCall
  /\ NoEntityCall
  /\ NoRenderCall
  /\ NoInitCall
  /\ NoSecondCall

NextLoop ==
  \/ LayoutRow
  \/ ReturnLayouts

SpecLoop == InitLoop /\ [][NextLoop]_vars

\* ---- vocabulary ---------------------------------------------------------
\* The i-th row of the LAYOUT tab.
LayoutTabRow(i) == all_rows_layout[i]

\* The row has a non-empty layer cell behind its first empty one.
HasIdBehindGap(row) ==
  \E j \in (NumScanned(row) + 2)..30 : row[2 + j] # <<>>

\* The row loop stopped at the i-th row with an error.
FailedAtRow(i) == pc = "raised" /\ index = i - 1

\* C24: the layers of every Layout built carry the ids of the row's layer
\* cells in front of its first empty layer cell and no other; and a
\* well-formed data row whose canvas id and whose ids in front of the first
\* empty layer cell resolve makes no error, whatever ids stand behind that
\* cell.
C24_IdsBehindGapIgnored ==
  /\ \A k \in 1..Len(layouts) :
       LET row == LayoutTabRow(DataRowIndex(k))
           layers == layouts[k].layers
       IN  /\ Len(layers) = NumScanned(row)
           /\ \A j \in 1..Len(layers) : layers[j].layer_id = row[2 + j]
  /\ \A i \in 1..Len(all_rows_layout) :
       ( /\ Processed(i)
         /\ DataRow(LayoutTabRow(i))
         /\ CanvasResolves(LayoutTabRow(i))
         /\ LayersResolve(LayoutTabRow(i)) )
       => ~FailedAtRow(i)

\* get_layouts returned two Layouts, the first of one layer from a row with
\* the unknown id q behind the gap, the second of one layer from a row
\* with the id m, of an image and a text layer, behind the gap.
C24_Witness ==
  /\ pc = "returned"
  /\ Len(returned[1]) = 2
  /\ HasIdBehindGap(LayoutTabRow(1)) /\ InNeither(LayoutTabRow(1)[5])
  /\ HasIdBehindGap(LayoutTabRow(2)) /\ InBoth(LayoutTabRow(2)[5])
  /\ Len(returned[1][1].layers) = 1
  /\ Len(returned[1][2].layers) = 1

Stage(p) ==
  IF p = "start" THEN 0
  ELSE IF p = "get_text_layers" THEN 1
  ELSE IF p = "text_layers_loop" THEN 2
  ELSE IF p = "get_image_layers" THEN 3
  ELSE IF p = "image_layers_loop" THEN 4
  ELSE IF p = "get_canvases" THEN 5
  ELSE IF p = "canvases_loop" THEN 6
  ELSE IF p = "layout_rows" THEN 7
  ELSE 8

\* The error of the check that fails at the current stage, if one does:
\* <<e>> or <<>>.
FailingCheck ==
  IF pc = "text_layers_loop"
  THEN LET r == get_text_layers(all_rows_text_layer, default_font_file_path)
       IN  IF r.ok THEN <<>> ELSE <<r.error>>
  ELSE IF pc = "image_layers_loop"
  THEN LET r == get_image_layers(all_rows_image_layer, image_directory_path)
       IN  IF ~r.ok THEN <<r.error>>
           ELSE IF r.value = <<>>
           THEN <<ValueError(NoImageLayerMsg, <<>>)>>
           ELSE <<>>
  ELSE IF pc = "canvases_loop"
  THEN LET r == get_canvases(all_rows_canvas)
       IN  IF ~r.ok THEN <<r.error>>
           ELSE IF r.value = <<>> THEN <<ValueError(NoCanvasMsg, <<>>)>>
           ELSE <<>>
  ELSE <<>>

\* C27: every step of get_layouts is a step of this sequence: read the
\* LAYOUT tab and check that it has two rows; read the TEXT_LAYER tab and
\* parse it; read the IMAGE_LAYER tab, parse it and check that there is an
\* image layer; read the CANVAS tab, parse it and check that there is a
\* canvas; take the layout rows top to bottom; return. Each tab is read at
\* its place in the sequence and nowhere else, a check that fails ends
\* get_layouts with its own error, and nothing is read or checked after.
C27_TabsReadOnceInOrder ==
  [][ /\ pc \notin {"raised", "returned"}
      /\ \/ Stage(pc') = Stage(pc) + 1 /\ raised' = <<>>
         \/ pc' = "raised" /\ raised' # <<>>
         \/ pc = "layout_rows" /\ pc' = pc /\ index' = index + 1
      /\ ReadLayoutTab <=> Stage(pc) = 0
      /\ ReadTextLayerTab <=> Stage(pc) = 1
      /\ ReadImageLayerTab <=> Stage(pc) = 3
      /\ ReadCanvasTab <=> Stage(pc) = 5
      /\ (Stage(pc) = 0 /\ Len(all_rows_layout') < 2)
           => raised' = <<ValueError(EmptyLayoutTabMsg, <<>>)>>
      /\ FailingCheck # <<>> => raised' = FailingCheck
      /\ (pc' = "raised" /\ Stage(pc) < 7)
           => /\ Stage(pc) \in {0, 2, 4, 6}
              /\ UNCHANGED <<index, layouts>>
      /\ pc' = "returned" => Stage(pc) = 7 /\ index = Len(all_rows_layout)
    ]_vars

\* The TEXT_LAYER tab did not parse: get_layouts raised its error, and
\* holds no image layer and no canvas, as their tabs were not read.
C27_Witness ==
  /\ pc = "raised"
  /\ Len(all_rows_layout) = 2
  /\ raised[1].msg = TabRowMsg(_TEXT_LAYER_TAB)
  /\ image_layers = <<>>
  /\ canvases = <<>>

\* ------------------------------------------------------------------------
\* generate_creatives when get_layouts fails
\* ------------------------------------------------------------------------
\* generate_creatives raised an error that get_layouts raises.
GetLayoutsFailed ==
  /\ gc_raised # <<>>
  /\ Raise(gc_raised[1]) \in GetLayoutsOutcomes

\* C28: when get_layouts raises inside generate_creatives,
\* generate_creatives ends with that error; the output directory is not
\* made, no LayerMixer is built, no call is made on one and no image is
\* saved.
C28_NothingProducedWithoutLayouts ==
  GetLayoutsFailed =>
    /\ gc_pc = "raised"
    /\ gc_layouts = <<>>
    /\ made_dirs = <<>>
    /\ _image = <<>>
    /\ mixer_pc = "none"
    /\ calls = <<>>
    /\ saved = <<>>

\* get_layouts raised the error of the empty LAYOUT tab and
\* generate_creatives ended with it.
C28_Witness ==
  /\ gc_pc = "raised"
  /\ gc_raised = <<ValueError(EmptyLayoutTabMsg, <<>>)>>
  /\ made_dirs = <<>>

\* ------------------------------------------------------------------------
\* The file_path of the image layers
\* ------------------------------------------------------------------------
\* get_image_layers returned.
ImageLayersReturned == GetterReturned /\ tab = _IMAGE_LAYER_TAB

\* The file name cell of the row of the k-th image layer returned.
FileNameCell(k) == RowOfEntity(k)[_IMAGE_LAYER_FILE_NAME_COLUMN + 1]

\* C29: the file_path of every ImageLayer get_image_layers returns is
\* os.path.join of the image directory and the file name cell of its row and
\* is not empty, whatever files exist; and get_image_layers returns whenever
\* every non-header row has its six cells, integers in the numeric cells, a
\* non-empty id and no negative number, an empty file name cell included.
C29_FilePathIsJoinedNeverEmpty ==
  /\ ImageLayersReturned =>
       \A k \in 1..Len(tab_result[1].value) :
         /\ tab_result[1].value[k].file_path
              = PathJoin(image_directory_path, FileNameCell(k))
         /\ tab_result[1].value[k].file_path # <<>>
  /\ (tab_pc = "done" /\ tab = _IMAGE_LAYER_TAB)
       => (tab_result[1].ok
             <=> \A i \in NonHeaderPositions(tab, all_rows_tab) :
                   ~BadRow(tab, all_rows_tab[i]))

\* get_image_layers returned a layer for a row whose file name cell is
\* empty: its file_path is the directory followed by a separator.
C29_Witness ==
  /\ ImageLayersReturned
  /\ Len(tab_result[1].value) = 1
  /\ FileNameCell(1) = <<>>
  /\ tab_result[1].value[1].file_path = <<"i", "m", "g", "/">>

\* ------------------------------------------------------------------------
\* generate_creatives on the layouts of the row loop
\* ------------------------------------------------------------------------
\* generate_creatives has called get_layouts, which enters its row loop.
InitNames ==
  /\ image_directory_path \in ImageDirectoryPaths
  /\ default_font_file_path \in FontFilePaths
  /\ pc = "layout_rows"
  /\ all_rows_layout \in SeqsUpTo(LoopRowChoices, MaxLoopRows)
  /\ ~LayoutTabIsEmpty(all_rows_layout)
  /\ all_rows_text_layer = <<>>
  /\ all_rows_image_layer = <<>>
  /\ all_rows_canvas = <<>>
  /\ text_layers = LoopTables.text
  /\ image_layers = LoopTables.image
  /\ canvases = LoopTables.canvas
  /\ index = 0
  /\ layouts = <<>>
  /\ raised = <<>>
  /\ returned = <<>>
  /\ NoTabCall
  /\ NoEntityCall
  /\ NoInitCall
  /\ NoSecondCall
  /\ _image = <<>>
  /\ mixer_pc = "none"
  /\ calls = <<>>
  /\ \E readable \in ReadableFiles, unwritable \in UnwritablePaths :
       files = [readable |-> readable, unwritable |-> unwritable]
  /\ saved = <<>>
  /\ gc_pc = "get_layouts"
  /\ gc_layouts = <<>>
  /\ gc_index = 0
  /\ gc_raised = <<>>
  /\ _output_path \in OutputPaths
  /\ made_dirs = <<>>

\* Line 78: get_layouts is over; its list is bound to layouts, or its error
\* leaves generate_creatives.
GcTakeLayouts ==
  /\ gc_pc = "get_layouts"
  /\ pc \in {"returned", "raised"}
  /\ IF pc = "returned"
     THEN /\ gc_layouts' = returned[1]
          /\ gc_pc' = "makedirs"
          /\ UNCHANGED <<gc_raised, gc_index>>
     ELSE /\ gc_pc' = "raised"
          /\ gc_raised' = raised
          /\ UNCHANGED <<gc_layouts, gc_index>>
  /\ UNCHANGED <<_image, mixer_pc, calls, files, saved, _output_path,
                 made_dirs, not_render_vars>>

NextNames ==
  \/ LayoutRow
  \/ ReturnLayouts
  \/ GcTakeLayouts
  \/ GcMakeDirs
  \/ GcNewLayerMixer
  \/ GcAddLayers
  \/ GcSaveImage
  \/ GcReturn

SpecNames == InitNames /\ [][NextNames]_vars

\* ---- vocabulary ---------------------------------------------------------
\* The output names of the layouts and the paths saved at.
OutputNames(ls) == {ls[k].output_filename : k \in 1..Len(ls)}
SavedPaths == {saved[k].path : k \in 1..Len(saved)}

\* C30: get_layouts builds one Layout per non-header row under the row's
\* output name and fails at a row only for its shape or its references,
\* never for a name used before; generate_creatives saves once per layout,
\* in list order, at output_path joined with the layout's output name, so
\* that it has written as many distinct files as there are distinct names.
C30_NamesNeedNotBeUnique ==
  /\ InRowLoop =>
       /\ Len(layouts) = NumDataRowsUpTo(index)
       /\ \A k \in 1..Len(layouts) :
            layouts[k].output_filename = LayoutTabRow(DataRowIndex(k))[1]
       /\ pc = "raised" => RowFails(index + 1)
  /\ gc_pc = "returned" =>
       /\ gc_layouts = returned[1]
       /\ Len(saved) = Len(gc_layouts)
       /\ \A k \in 1..Len(saved) :
            saved[k].path = PathJoin(_output_path, gc_layouts[k].output_filename)
       /\ Cardinality(SavedPaths) = Cardinality(OutputNames(gc_layouts))
       /\ Cardinality(SavedPaths) <= Len(gc_layouts)

\* Two rows with the output name x gave two Layouts of different layers;
\* generate_creatives saved both at out/x, the second after the first: two
\* saves, one file.
C30_Witness ==
  /\ gc_pc = "returned"
  /\ Len(gc_layouts) = 2
  /\ LayoutTabRow(1)[1] = <<"x">> /\ LayoutTabRow(2)[1] = <<"x">>
  /\ gc_layouts[1].layers # gc_layouts[2].layers
  /\ saved[1].path = <<"o", "u", "t", "/", "x">>
  /\ saved[2].path = saved[1].path
  /\ saved[1].image # saved[2].image
  /\ Cardinality(SavedPaths) = 1

====
